---- MODULE Spec2Model ----
(***************************************************************************)
(* A model of the Telegram medical bot of src/bot.py over the tables of    *)
(* src/models.py.                                                          *)
(*                                                                         *)
(* State: the five tables (users, specializations, doctors, appointments,  *)
(* certificates), each chat's conversation state (the ConversationHandler  *)
(* of bot.py:2410-2466) and its context.user_data, the inline buttons the  *)
(* developer chat holds, and the outcome of the last handler run (what the *)
(* sender was told, which network operation failed).                       *)
(*                                                                         *)
(* One action per handler.  The application is built without               *)
(* concurrent_updates (bot.py:2473), so an update's handler runs to its    *)
(* end, awaits included, before the next update is taken: a handler is one *)
(* atomic action.                                                          *)
(*                                                                         *)
(* A message text is a sequence of one-character strings; a keyboard       *)
(* button, whose label is a fixed Persian string in the source, is a       *)
(* one-token sequence such as <<"[back]">>.                                *)
(***************************************************************************)
EXTENDS Integers, Sequences, FiniteSets, TLC

VARIABLES users, specializations, doctors, appointments, certificates,
          conv, ud, dev_buttons, last

dbVars == <<users, specializations, doctors, appointments, certificates>>
vars == <<users, specializations, doctors, appointments, certificates,
          conv, ud, dev_buttons, last>>

(***************************************************************************)
(* Bounds of the model.                                                    *)
(***************************************************************************)
MaxCerts == 2
MaxAppts == 2

(***************************************************************************)
(* Chats.  DEVELOPER_CHAT_ID is read from the environment (bot.py:58) and  *)
(* must not be 0 (bot.py:68); one more chat stands for an ordinary user.   *)
(***************************************************************************)
DEVELOPER_CHAT_ID == 1
Chats == {DEVELOPER_CHAT_ID, DEVELOPER_CHAT_ID + 1}

(***************************************************************************)
(* Texts.                                                                  *)
(***************************************************************************)
SP == " "

RECURSIVE LStrip(_)
LStrip(s) == IF s # <<>> /\ Head(s) = SP THEN LStrip(Tail(s)) ELSE s

RECURSIVE RStrip(_)
RStrip(s) == IF s # <<>> /\ s[Len(s)] = SP THEN RStrip(SubSeq(s, 1, Len(s) - 1)) ELSE s

\* str.strip(): leading and trailing whitespace removed
Strip(s) == RStrip(LStrip(s))

\* keyboard buttons (the labels are Persian strings with an emoji in the source)
BACK == <<"[back]">>                  \* "bazgasht"
CANCEL == <<"[cancel]">>              \* "laghv"
YES == <<"[bale]">>
NO == <<"[kheyr]">>
M_APPOINTMENT == <<"[menu:appointment]">>
M_CERTIFICATE == <<"[menu:certificate]">>
M_PAYMENT == <<"[menu:payment]">>
M_CONTACT == <<"[menu:contact]">>
M_HISTORY == <<"[menu:history]">>
M_EDIT_PROFILE == <<"[menu:edit-profile]">>
M_RESTART == <<"[menu:restart]">>
M_DEVELOPER == <<"[menu:developer]">>
E_NAME == <<"[edit:name]">>
E_PHONE == <<"[edit:phone]">>
E_EMAIL == <<"[edit:email]">>
R_CLUB == <<"[reason:club]">>
R_DRIVING == <<"[reason:driving]">>
R_OTHER == <<"[reason:other]">>
CertificateReasons == {R_CLUB, R_DRIVING, R_OTHER}


(***************************************************************************)
(* EMAIL_REGEX = re.compile(r"[^@]+@[^@]+\.[^@]+")  (bot.py:72)            *)
(***************************************************************************)
\* the whole of s is  [^@]+ @ [^@]+ \. [^@]+
EmailFullMatch(s) ==
    \E i \in 1..Len(s) : \E j \in 1..Len(s) :
        /\ s[i] = "@"
        /\ s[j] = "."
        /\ 1 < i
        /\ i + 1 < j
        /\ j < Len(s)
        /\ \A k \in 1..Len(s) : s[k] = "@" => k = i

\* EMAIL_REGEX.match(s): re.match anchors the pattern at the start of s only,
\* so it succeeds when some prefix of s is of the pattern's form
EMAIL_REGEX_match(s) == \E n \in 1..Len(s) : EmailFullMatch(SubSeq(s, 1, n))

(***************************************************************************)
(* The database (src/models.py).  A table is a set of rows; a row of a     *)
(* nullable=False column holding None is the value NULL below.             *)
(***************************************************************************)
NULL == <<"NULL">>

Max(S) == CHOOSE m \in S : \A n \in S : n <= m

\* id = Column(Integer, primary_key=True) on SQLite (models.py:11): the rowid,
\* one more than the largest id in the table
NextId(table) == Max({r.id : r \in table} \cup {0}) + 1

\* unique=True on users.telegram_id (models.py:21)
UniqueTelegramId(U) == \A a \in U : \A b \in U : a.telegram_id = b.telegram_id => a = b

\* users.email declared without unique=True
UniqueEmail_absent(U) == TRUE

\* unique=True on users.email (models.py:23)
UniqueEmail(U) == \A a \in U : \A b \in U : a.email = b.email => a = b

\* unique=True on specializations.name (models.py:34)
UniqueSpecName(S) == \A a \in S : \A b \in S : a.name = b.name => a = b

\* primary keys
UniqueId(T) == \A a \in T : \A b \in T : a.id = b.id => a = b

\* nullable=False columns
NotNull(U, S, D, A, C) ==
    /\ \A r \in U : r.name # NULL /\ r.email # NULL /\ r.phone # NULL
    /\ \A r \in S : r.name # NULL
    /\ \A r \in D : r.name # NULL /\ r.specialization_id # 0
    /\ \A r \in A : r.user_id # 0 /\ r.doctor_id # 0 /\ r.contact_method # NULL
    /\ \A r \in C : r.user_id # 0 /\ r.reason # NULL

\* what the database accepts at session.commit(); anything else raises
\* IntegrityError.  (SQLite does not enforce the ForeignKey columns unless
\* PRAGMA foreign_keys is set, which neither file does.)
IntegrityOk(U, S, D, A, C) ==
    /\ UniqueId(U) /\ UniqueId(S) /\ UniqueId(D) /\ UniqueId(A) /\ UniqueId(C)
    /\ UniqueTelegramId(U)
    /\ UniqueEmail(U)
    /\ UniqueSpecName(S)
    /\ NotNull(U, S, D, A, C)

\* session.query(User).filter_by(telegram_id=user_id).first()
HasUser(u) == \E r \in users : r.telegram_id = u
UserOf(u) == CHOOSE r \in users : r.telegram_id = u

(***************************************************************************)
(* context.user_data: one dict per chat; an absent key reads None.         *)
(***************************************************************************)
NoData == [reg_name |-> NULL, reg_email |-> NULL,
           pending_action |-> "none",
           certificate_reason |-> NULL,
           certificate_details |-> [reason |-> NULL, description |-> NULL],
           appointment_specialization |-> NULL,
           appointment_doctor_id |-> 0,
           appointment_contact_method |-> NULL,
           payment_appointment_id |-> 0,
           remove_specialization_id |-> 0,
           add_doctor_specialization_id |-> 0,
           add_doctor_name |-> NULL]

(***************************************************************************)
(* Outcome of a handler run: what the sender was told (reply) and which    *)
(* network operation of the handler failed (fault), chat being the sender. *)
(*   reply: "ok"       the handler's normal answer                         *)
(*          "invalid"  the input was refused                               *)
(*          "db_error" the answer of an except IntegrityError branch       *)
(*          "failure"  the answer of an except Exception branch            *)
(*          "cancel"   the answer of cancel()                              *)
(*          "declined" the answer to a confirmation answered with "no"     *)
(*          "crash"    the handler raised: no answer, state kept           *)
(*          "silent"   no answer to the sender                             *)
(***************************************************************************)
Out(u, h, r, f) == last' = [chat |-> u, handler |-> h, reply |-> r, fault |-> f]

\* reply_markup=main_menu_keyboard(...) and return MAIN_MENU
ToState(u, s) == conv' = [conv EXCEPT ![u] = s]

Init ==
    /\ users = {}
    /\ specializations = {}
    /\ doctors = {}
    /\ appointments = {}
    /\ certificates = {}
    /\ conv = [u \in Chats |-> "NONE"]
    /\ ud = [u \in Chats |-> NoData]
    /\ dev_buttons = {}
    /\ last = [chat |-> 0, handler |-> "init", reply |-> "silent", fault |-> "none"]

(***************************************************************************)
(* /start (entry point; allow_reentry=True), /cancel and /restart          *)
(* (fallbacks, tried in every state of a running conversation).            *)
(***************************************************************************)
start(u) ==
    /\ ToState(u, "MAIN_MENU")
    /\ Out(u, "start", "ok", "none")
    /\ UNCHANGED <<dbVars, ud, dev_buttons>>

\* /cancel answering without `return MAIN_MENU`
cancel_command_kept(u) ==
    /\ conv[u] # "NONE"
    /\ Out(u, "cancel", "cancel", "none")
    /\ UNCHANGED <<dbVars, conv, ud, dev_buttons>>

cancel_command(u) ==
    /\ conv[u] # "NONE"
    /\ ToState(u, "MAIN_MENU")
    /\ Out(u, "cancel", "cancel", "none")
    /\ UNCHANGED <<dbVars, ud, dev_buttons>>

restart_command(u) ==
    /\ conv[u] # "NONE"
    /\ ToState(u, "MAIN_MENU")
    /\ Out(u, "restart", "ok", "none")
    /\ UNCHANGED <<dbVars, ud, dev_buttons>>

\* `return await cancel(update, context)` inside a handler
CancelFrom(h, u) ==
    /\ ToState(u, "MAIN_MENU")
    /\ Out(u, h, "cancel", "none")
    /\ UNCHANGED <<dbVars, ud, dev_buttons>>

(***************************************************************************)
(* main_menu_handler (bot.py:288-401)                                      *)
(***************************************************************************)
\* main_menu_handler without `user_id == DEVELOPER_CHAT_ID`
main_menu_handler_anyone(u, text) ==
    LET choice == Strip(text)
        registered == HasUser(u)
        to == CASE choice = M_APPOINTMENT ->
                       IF specializations = {} THEN "MAIN_MENU"
                       ELSE "APPOINTMENT_CHOOSE_SPECIALIZATION"
                [] choice = M_CERTIFICATE -> "CERTIFICATE_REASON"
                [] choice = M_HISTORY -> "MAIN_MENU"
                [] choice = M_EDIT_PROFILE ->
                       IF registered THEN "EDIT_PROFILE_MENU" ELSE "MAIN_MENU"
                [] choice = M_PAYMENT ->
                       IF registered THEN "PAYMENT_APPOINTMENT_ID" ELSE "MAIN_MENU"
                [] choice = M_CONTACT -> "SEND_MESSAGE_TO_DEVELOPER"
                [] choice = M_RESTART -> "MAIN_MENU"
                [] choice = M_DEVELOPER -> "DEVELOPER_MENU"
                [] OTHER -> "MAIN_MENU"
        refused == \/ choice = M_APPOINTMENT /\ specializations = {}
                   \/ choice \in {M_HISTORY, M_EDIT_PROFILE, M_PAYMENT} /\ ~registered
                   \/ choice \notin {M_APPOINTMENT, M_CERTIFICATE, M_HISTORY, M_EDIT_PROFILE,
                                     M_PAYMENT, M_CONTACT, M_RESTART, M_DEVELOPER}
                   \/ FALSE
    IN  /\ conv[u] = "MAIN_MENU"
        /\ ToState(u, to)
        /\ Out(u, "main_menu_handler", IF refused THEN "invalid" ELSE "ok", "none")
        /\ UNCHANGED <<dbVars, ud, dev_buttons>>

\* main_menu_handler without the `if not user` tests
main_menu_handler_unregistered(u, text) ==
    LET choice == Strip(text)
        registered == TRUE
        to == CASE choice = M_APPOINTMENT ->
                       IF specializations = {} THEN "MAIN_MENU"
                       ELSE "APPOINTMENT_CHOOSE_SPECIALIZATION"
                [] choice = M_CERTIFICATE -> "CERTIFICATE_REASON"
                [] choice = M_HISTORY -> "MAIN_MENU"
                [] choice = M_EDIT_PROFILE ->
                       IF registered THEN "EDIT_PROFILE_MENU" ELSE "MAIN_MENU"
                [] choice = M_PAYMENT ->
                       IF registered THEN "PAYMENT_APPOINTMENT_ID" ELSE "MAIN_MENU"
                [] choice = M_CONTACT -> "SEND_MESSAGE_TO_DEVELOPER"
                [] choice = M_RESTART -> "MAIN_MENU"
                [] choice = M_DEVELOPER /\ u = DEVELOPER_CHAT_ID -> "DEVELOPER_MENU"
                [] OTHER -> "MAIN_MENU"
        refused == \/ choice = M_APPOINTMENT /\ specializations = {}
                   \/ choice \in {M_HISTORY, M_EDIT_PROFILE, M_PAYMENT} /\ ~registered
                   \/ choice \notin {M_APPOINTMENT, M_CERTIFICATE, M_HISTORY, M_EDIT_PROFILE,
                                     M_PAYMENT, M_CONTACT, M_RESTART, M_DEVELOPER}
                   \/ choice = M_DEVELOPER /\ u # DEVELOPER_CHAT_ID
    IN  /\ conv[u] = "MAIN_MENU"
        /\ ToState(u, to)
        /\ Out(u, "main_menu_handler", IF refused THEN "invalid" ELSE "ok", "none")
        /\ UNCHANGED <<dbVars, ud, dev_buttons>>

main_menu_handler(u, text) ==
    LET choice == Strip(text)
        registered == HasUser(u)
        to == CASE choice = M_APPOINTMENT ->
                       IF specializations = {} THEN "MAIN_MENU"
                       ELSE "APPOINTMENT_CHOOSE_SPECIALIZATION"
                [] choice = M_CERTIFICATE -> "CERTIFICATE_REASON"
                [] choice = M_HISTORY -> "MAIN_MENU"
                [] choice = M_EDIT_PROFILE ->
                       IF registered THEN "EDIT_PROFILE_MENU" ELSE "MAIN_MENU"
                [] choice = M_PAYMENT ->
                       IF registered THEN "PAYMENT_APPOINTMENT_ID" ELSE "MAIN_MENU"
                [] choice = M_CONTACT -> "SEND_MESSAGE_TO_DEVELOPER"
                [] choice = M_RESTART -> "MAIN_MENU"
                [] choice = M_DEVELOPER /\ u = DEVELOPER_CHAT_ID -> "DEVELOPER_MENU"
                [] OTHER -> "MAIN_MENU"
        refused == \/ choice = M_APPOINTMENT /\ specializations = {}
                   \/ choice \in {M_HISTORY, M_EDIT_PROFILE, M_PAYMENT} /\ ~registered
                   \/ choice \notin {M_APPOINTMENT, M_CERTIFICATE, M_HISTORY, M_EDIT_PROFILE,
                                     M_PAYMENT, M_CONTACT, M_RESTART, M_DEVELOPER}
                   \/ choice = M_DEVELOPER /\ u # DEVELOPER_CHAT_ID
    IN  /\ conv[u] = "MAIN_MENU"
        /\ ToState(u, to)
        /\ Out(u, "main_menu_handler", IF refused THEN "invalid" ELSE "ok", "none")
        /\ UNCHANGED <<dbVars, ud, dev_buttons>>

(***************************************************************************)
(* Certificate steps (bot.py:808-947)                                      *)
(***************************************************************************)
certificate_reason(u, text) ==
    LET reason == Strip(text)
    IN  /\ conv[u] = "CERTIFICATE_REASON"
        /\ IF reason = BACK
           THEN /\ ToState(u, "MAIN_MENU")
                /\ Out(u, "certificate_reason", "ok", "none")
                /\ UNCHANGED ud
           ELSE IF reason \notin CertificateReasons
           THEN /\ ToState(u, "CERTIFICATE_REASON")
                /\ Out(u, "certificate_reason", "invalid", "none")
                /\ UNCHANGED ud
           ELSE /\ ud' = [ud EXCEPT ![u].certificate_reason = reason]
                /\ ToState(u, "CERTIFICATE_DESCRIPTION")
                /\ Out(u, "certificate_reason", "ok", "none")
        /\ UNCHANGED <<dbVars, dev_buttons>>

\* requests that exist or wait for the end of a registration
CertificateLoad ==
    Cardinality(certificates)
    + Cardinality({c \in Chats : ud[c].pending_action = "request_certificate"})

\* certificate_description storing the request as already approved
certificate_description_approved(u, text, f) ==
    LET description == Strip(text)
        user == UserOf(u)
        certificate == [id |-> NextId(certificates), user_id |-> user.id,
                        reason |-> ud[u].certificate_reason,
                        description |-> description, status |-> "approved"]
        C1 == certificates \cup {certificate}
    IN  /\ conv[u] = "CERTIFICATE_DESCRIPTION"
        /\ IF description = BACK
           THEN /\ f = "none"
                /\ ToState(u, "CERTIFICATE_REASON")
                /\ Out(u, "certificate_description", "ok", "none")
                /\ UNCHANGED <<dbVars, ud, dev_buttons>>
           ELSE IF description = CANCEL
           THEN f = "none" /\ CancelFrom("certificate_description", u)
           ELSE IF description = <<>>
           THEN /\ f = "none"
                /\ ToState(u, "CERTIFICATE_DESCRIPTION")
                /\ Out(u, "certificate_description", "invalid", "none")
                /\ UNCHANGED <<dbVars, ud, dev_buttons>>
           ELSE IF ~HasUser(u)
           THEN \* not registered: the request is deferred to the end of registration
                /\ f = "none"
                /\ CertificateLoad < MaxCerts
                /\ ud' = [ud EXCEPT ![u].pending_action = "request_certificate",
                                    ![u].certificate_details =
                                        [reason |-> ud[u].certificate_reason,
                                         description |-> description]]
                /\ ToState(u, "REGISTER_NAME")
                /\ Out(u, "certificate_description", "ok", "none")
                /\ UNCHANGED <<dbVars, dev_buttons>>
           ELSE IF ~IntegrityOk(users, specializations, doctors, appointments, C1)
           THEN \* except IntegrityError: rollback
                /\ f = "none"
                /\ CertificateLoad < MaxCerts
                /\ ToState(u, "MAIN_MENU")
                /\ Out(u, "certificate_description", "db_error", "none")
                /\ UNCHANGED <<dbVars, ud, dev_buttons>>
           ELSE /\ CertificateLoad < MaxCerts
                /\ certificates' = C1
                /\ UNCHANGED <<users, specializations, doctors, appointments>>
                /\ ToState(u, "MAIN_MENU")
                /\ IF f = "message"
                   THEN \* the developer was not notified: except Exception
                        /\ Out(u, "certificate_description", "failure", "message")
                        /\ UNCHANGED <<ud, dev_buttons>>
                   ELSE \* a failing send_email is logged inside send_email
                        /\ dev_buttons' = dev_buttons \cup {[kind |-> "cert", id |-> certificate.id]}
                        /\ ud' = [ud EXCEPT ![u].pending_action = "none",
                                            ![u].certificate_details =
                                                [reason |-> NULL, description |-> NULL]]
                        /\ Out(u, "certificate_description", "ok", f)

\* f: the network operation that fails in this run ("none", "message", "email")
certificate_description(u, text, f) ==
    LET description == Strip(text)
        user == UserOf(u)
        certificate == [id |-> NextId(certificates), user_id |-> user.id,
                        reason |-> ud[u].certificate_reason,
                        description |-> description, status |-> "pending"]
        C1 == certificates \cup {certificate}
    IN  /\ conv[u] = "CERTIFICATE_DESCRIPTION"
        /\ IF description = BACK
           THEN /\ f = "none"
                /\ ToState(u, "CERTIFICATE_REASON")
                /\ Out(u, "certificate_description", "ok", "none")
                /\ UNCHANGED <<dbVars, ud, dev_buttons>>
           ELSE IF description = CANCEL
           THEN f = "none" /\ CancelFrom("certificate_description", u)
           ELSE IF description = <<>>
           THEN /\ f = "none"
                /\ ToState(u, "CERTIFICATE_DESCRIPTION")
                /\ Out(u, "certificate_description", "invalid", "none")
                /\ UNCHANGED <<dbVars, ud, dev_buttons>>
           ELSE IF ~HasUser(u)
           THEN \* not registered: the request is deferred to the end of registration
                /\ f = "none"
                /\ CertificateLoad < MaxCerts
                /\ ud' = [ud EXCEPT ![u].pending_action = "request_certificate",
                                    ![u].certificate_details =
                                        [reason |-> ud[u].certificate_reason,
                                         description |-> description]]
                /\ ToState(u, "REGISTER_NAME")
                /\ Out(u, "certificate_description", "ok", "none")
                /\ UNCHANGED <<dbVars, dev_buttons>>
           ELSE IF ~IntegrityOk(users, specializations, doctors, appointments, C1)
           THEN \* except IntegrityError: rollback
                /\ f = "none"
                /\ CertificateLoad < MaxCerts
                /\ ToState(u, "MAIN_MENU")
                /\ Out(u, "certificate_description", "db_error", "none")
                /\ UNCHANGED <<dbVars, ud, dev_buttons>>
           ELSE /\ CertificateLoad < MaxCerts
                /\ certificates' = C1
                /\ UNCHANGED <<users, specializations, doctors, appointments>>
                /\ ToState(u, "MAIN_MENU")
                /\ IF f = "message"
                   THEN \* the developer was not notified: except Exception
                        /\ Out(u, "certificate_description", "failure", "message")
                        /\ UNCHANGED <<ud, dev_buttons>>
                   ELSE \* a failing send_email is logged inside send_email
                        /\ dev_buttons' = dev_buttons \cup {[kind |-> "cert", id |-> certificate.id]}
                        /\ ud' = [ud EXCEPT ![u].pending_action = "none",
                                            ![u].certificate_details =
                                                [reason |-> NULL, description |-> NULL]]
                        /\ Out(u, "certificate_description", "ok", f)

(***************************************************************************)
(* Registration steps (bot.py:963-1169)                                    *)
(***************************************************************************)
\* register_name without its `if not name` branch
register_name_unchecked(u, text) ==
    LET name == Strip(text)
    IN  /\ conv[u] = "REGISTER_NAME"
        /\ IF name = CANCEL
           THEN CancelFrom("register_name", u)
           ELSE /\ ud' = [ud EXCEPT ![u].reg_name = name]
                /\ ToState(u, "REGISTER_EMAIL")
                /\ Out(u, "register_name", "ok", "none")
                /\ UNCHANGED <<dbVars, dev_buttons>>

register_name(u, text) ==
    LET name == Strip(text)
    IN  /\ conv[u] = "REGISTER_NAME"
        /\ IF name = CANCEL
           THEN CancelFrom("register_name", u)
           ELSE IF name = <<>>
           THEN /\ ToState(u, "REGISTER_NAME")
                /\ Out(u, "register_name", "invalid", "none")
                /\ UNCHANGED <<dbVars, ud, dev_buttons>>
           ELSE /\ ud' = [ud EXCEPT ![u].reg_name = name]
                /\ ToState(u, "REGISTER_EMAIL")
                /\ Out(u, "register_name", "ok", "none")
                /\ UNCHANGED <<dbVars, dev_buttons>>

register_email(u, text) ==
    LET email == Strip(text)
    IN  /\ conv[u] = "REGISTER_EMAIL"
        /\ IF email = CANCEL
           THEN CancelFrom("register_email", u)
           ELSE IF ~EMAIL_REGEX_match(email)
           THEN /\ ToState(u, "REGISTER_EMAIL")
                /\ Out(u, "register_email", "invalid", "none")
                /\ UNCHANGED <<dbVars, ud, dev_buttons>>
           ELSE /\ ud' = [ud EXCEPT ![u].reg_email = email]
                /\ ToState(u, "REGISTER_PHONE")
                /\ Out(u, "register_email", "ok", "none")
                /\ UNCHANGED <<dbVars, dev_buttons>>

\* the rows of users after register_phone's writes (bot.py:1020-1037)
RegisterWrite(u, name, email, phone) ==
    IF HasUser(u)
    THEN (users \ {UserOf(u)})
         \cup {[UserOf(u) EXCEPT !.name = name, !.email = email, !.phone = phone]}
    ELSE users \cup {[id |-> NextId(users), telegram_id |-> u,
                      name |-> name, email |-> email, phone |-> phone]}

\* the except IntegrityError branch answering without undoing the write
RegisterNoRollback(u, U1) ==
    /\ users' = U1
    /\ ToState(u, "MAIN_MENU")
    /\ Out(u, "register_phone", "db_error", "none")
    /\ UNCHANGED <<specializations, doctors, appointments, certificates, ud, dev_buttons>>

\* except IntegrityError (bot.py:1045-1051): session.rollback(), the error
\* answer, return MAIN_MENU; U1 is what the failed commit tried to write
RegisterRollback(u, U1) ==
    /\ ToState(u, "MAIN_MENU")
    /\ Out(u, "register_phone", "db_error", "none")
    /\ UNCHANGED <<dbVars, ud, dev_buttons>>

\* f: the network operation that fails in this run ("none", "message", "email")
register_phone(u, text, f) ==
    LET phone == Strip(text)
        U1 == RegisterWrite(u, ud[u].reg_name, ud[u].reg_email, phone)
        user == CHOOSE r \in U1 : r.telegram_id = u
        details == ud[u].certificate_details
        certificate == [id |-> NextId(certificates), user_id |-> user.id,
                        reason |-> details.reason,
                        description |-> details.description, status |-> "pending"]
        C1 == certificates \cup {certificate}
        cleared == [ud EXCEPT ![u].pending_action = "none",
                              ![u].certificate_details =
                                  [reason |-> NULL, description |-> NULL]]
    IN  /\ conv[u] = "REGISTER_PHONE"
        /\ IF phone = CANCEL
           THEN f = "none" /\ CancelFrom("register_phone", u)
           ELSE IF phone = <<>>
           THEN /\ f = "none"
                /\ ToState(u, "REGISTER_PHONE")
                /\ Out(u, "register_phone", "invalid", "none")
                /\ UNCHANGED <<dbVars, ud, dev_buttons>>
           ELSE IF ~IntegrityOk(U1, specializations, doctors, appointments, certificates)
           THEN f = "none" /\ RegisterRollback(u, U1)
           ELSE /\ users' = U1
                /\ ToState(u, "MAIN_MENU")
                /\ UNCHANGED <<specializations, doctors, appointments>>
                /\ IF ud[u].pending_action # "request_certificate"
                   THEN \* 'make_appointment' is `pass`: nothing is created
                        /\ f \in {"none", "email"}
                        /\ ud' = cleared
                        /\ Out(u, "register_phone", "ok", f)
                        /\ UNCHANGED <<certificates, dev_buttons>>
                   ELSE IF details.reason = NULL \/ details.description = NULL
                                \/ details.description = <<>>
                   THEN /\ f \in {"none", "email"}
                        /\ Out(u, "register_phone", "incomplete", f)
                        /\ UNCHANGED <<certificates, ud, dev_buttons>>
                   ELSE IF ~IntegrityOk(U1, specializations, doctors, appointments, C1)
                   THEN \* the second commit raises: except Exception
                        /\ f \in {"none", "email"}
                        /\ ud' = cleared
                        /\ Out(u, "register_phone", "failure", f)
                        /\ UNCHANGED <<certificates, dev_buttons>>
                   ELSE /\ certificates' = C1
                        /\ ud' = cleared
                        /\ IF f = "message"
                           THEN /\ Out(u, "register_phone", "failure", "message")
                                /\ UNCHANGED dev_buttons
                           ELSE /\ dev_buttons' = dev_buttons
                                       \cup {[kind |-> "cert", id |-> certificate.id]}
                                /\ Out(u, "register_phone", "ok", f)

(***************************************************************************)
(* Profile editing (bot.py:2226-2403)                                      *)
(***************************************************************************)
EditMenuKeyboard == {E_NAME, E_PHONE, E_EMAIL, BACK}

edit_profile_menu(u, text) ==
    LET choice == Strip(text)
        to == CASE choice = E_NAME -> "EDIT_NAME"
                [] choice = E_PHONE -> "EDIT_PHONE"
                [] choice = E_EMAIL -> "EDIT_EMAIL"
                [] choice = BACK -> "MAIN_MENU"
                [] choice = CANCEL -> "MAIN_MENU"
                [] OTHER -> "EDIT_PROFILE_MENU"
    IN  /\ conv[u] = "EDIT_PROFILE_MENU"
        /\ ToState(u, to)
        /\ Out(u, "edit_profile_menu",
               IF choice \in EditMenuKeyboard \cup {CANCEL} THEN "ok" ELSE "invalid", "none")
        /\ UNCHANGED <<dbVars, ud, dev_buttons>>

\* the common shape of edit_name, edit_phone and edit_email once the input is
\* accepted: write the column, commit, answer, return MAIN_MENU
EditCommit(h, u, U1) ==
    /\ ToState(u, "MAIN_MENU")
    /\ UNCHANGED <<specializations, doctors, appointments, certificates, ud, dev_buttons>>
    /\ IF ~HasUser(u)
       THEN Out(u, h, "invalid", "none") /\ UNCHANGED users
       ELSE IF IntegrityOk(U1, specializations, doctors, appointments, certificates)
       THEN Out(u, h, "ok", "none") /\ users' = U1
       ELSE \* except IntegrityError: session.rollback()
            Out(u, h, "db_error", "none") /\ UNCHANGED users

EditStay(h, u, s, r) ==
    /\ ToState(u, s)
    /\ Out(u, h, r, "none")
    /\ UNCHANGED <<dbVars, ud, dev_buttons>>

edit_name(u, text) ==
    LET new_name == Strip(text)
    IN  /\ conv[u] = "EDIT_NAME"
        /\ IF new_name = BACK THEN EditStay("edit_name", u, "EDIT_PROFILE_MENU", "ok")
           ELSE IF new_name = CANCEL THEN CancelFrom("edit_name", u)
           ELSE IF new_name = <<>> THEN EditStay("edit_name", u, "EDIT_NAME", "invalid")
           ELSE EditCommit("edit_name", u,
                    (users \ {UserOf(u)}) \cup {[UserOf(u) EXCEPT !.name = new_name]})

edit_phone(u, text) ==
    LET new_phone == Strip(text)
    IN  /\ conv[u] = "EDIT_PHONE"
        /\ IF new_phone = BACK THEN EditStay("edit_phone", u, "EDIT_PROFILE_MENU", "ok")
           ELSE IF new_phone = CANCEL THEN CancelFrom("edit_phone", u)
           ELSE IF new_phone = <<>> THEN EditStay("edit_phone", u, "EDIT_PHONE", "invalid")
           ELSE EditCommit("edit_phone", u,
                    (users \ {UserOf(u)}) \cup {[UserOf(u) EXCEPT !.phone = new_phone]})

edit_email(u, text) ==
    LET new_email == Strip(text)
    IN  /\ conv[u] = "EDIT_EMAIL"
        /\ IF new_email = BACK THEN EditStay("edit_email", u, "EDIT_PROFILE_MENU", "ok")
           ELSE IF new_email = CANCEL THEN CancelFrom("edit_email", u)
           ELSE IF ~EMAIL_REGEX_match(new_email)
           THEN EditStay("edit_email", u, "EDIT_EMAIL", "invalid")
           ELSE IF \E r \in users : r.email = new_email /\ r.telegram_id # u
           THEN EditStay("edit_email", u, "EDIT_EMAIL", "invalid")
           ELSE EditCommit("edit_email", u,
                    (users \ {UserOf(u)}) \cup {[UserOf(u) EXCEPT !.email = new_email]})

(***************************************************************************)
(* Developer inline actions on certificates (bot.py:2119-2219).  The       *)
(* buttons are pressed in the developer chat; a failing notification of    *)
(* the user is logged and the handler goes on.                             *)
(***************************************************************************)
\* approve_certificate and reject_certificate without `cert.status == 'pending'`
DecideCertificateAnyStatus(h, cert_id, status, f) ==
    LET found == \E c \in certificates : c.id = cert_id
        cert == CHOOSE c \in certificates : c.id = cert_id
        C1 == (certificates \ {cert}) \cup {[cert EXCEPT !.status = status]}
    IN  /\ [kind |-> "cert", id |-> cert_id] \in dev_buttons
        /\ UNCHANGED <<users, specializations, doctors, appointments, conv, ud, dev_buttons>>
        /\ IF found
           THEN certificates' = C1 /\ Out(DEVELOPER_CHAT_ID, h, "ok", f)
           ELSE f = "none" /\ UNCHANGED certificates
                     /\ Out(DEVELOPER_CHAT_ID, h, "invalid", "none")

DecideCertificate(h, cert_id, status, f) ==
    LET found == \E c \in certificates : c.id = cert_id
        cert == CHOOSE c \in certificates : c.id = cert_id
        C1 == (certificates \ {cert}) \cup {[cert EXCEPT !.status = status]}
    IN  /\ [kind |-> "cert", id |-> cert_id] \in dev_buttons
        /\ UNCHANGED <<users, specializations, doctors, appointments, conv, ud, dev_buttons>>
        /\ IF found /\ cert.status = "pending"
           THEN IF IntegrityOk(users, specializations, doctors, appointments, C1)
                THEN certificates' = C1 /\ Out(DEVELOPER_CHAT_ID, h, "ok", f)
                ELSE f = "none" /\ UNCHANGED certificates
                     /\ Out(DEVELOPER_CHAT_ID, h, "db_error", "none")
           ELSE f = "none" /\ UNCHANGED certificates
                     /\ Out(DEVELOPER_CHAT_ID, h, "invalid", "none")

\* approve_certificate writing the appointments' word for it
approve_certificate_confirmed(cert_id, f) ==
    DecideCertificate("approve_certificate", cert_id, "confirmed", f)

approve_certificate(cert_id, f) ==
    DecideCertificate("approve_certificate", cert_id, "approved", f)

reject_certificate(cert_id, f) ==
    DecideCertificate("reject_certificate", cert_id, "rejected", f)

(***************************************************************************)
(* Catalog lookups and the doctor buttons (bot.py:183-203, 469-473)        *)
(***************************************************************************)
IN_PERSON == <<"[hozoori]">>
ONLINE == <<"[online]">>
BOTH == <<"[har-do]">>
NOT_AVAILABLE == <<"[dar-dastres-nist]">>

\* session.query(Specialization).filter_by(name=spec_name).first()
HasSpec(name) == \E sp \in specializations : sp.name = name
SpecOf(name) == CHOOSE sp \in specializations : sp.name = name

\* get_doctors_by_specialization(spec_name)
get_doctors_by_specialization(name) ==
    IF HasSpec(name) THEN {d \in doctors : d.specialization_id = SpecOf(name).id} ELSE {}

\* " & ".join(availability), or the "not available" label
format_doctor_availability(doctor) ==
    IF doctor.in_person_available /\ doctor.online_available
    THEN IN_PERSON \o <<" ", "&", " ">> \o ONLINE
    ELSE IF doctor.in_person_available THEN IN_PERSON
    ELSE IF doctor.online_available THEN ONLINE
    ELSE NOT_AVAILABLE

\* f"{doc.name} ({availability})"
DoctorButton(doctor) ==
    doctor.name \o <<" ", "(">> \o format_doctor_availability(doctor) \o <<")">>

\* re.match(r"(.+?) \((.+)\)", doc_selection): the places where " (" ends a
\* non-empty name and is followed by a non-empty text and a ")"
DoctorMatchAt(s) ==
    {i \in 2..(Len(s) - 3) :
        /\ s[i] = " "
        /\ s[i + 1] = "("
        /\ \E j \in (i + 3)..Len(s) : s[j] = ")"}

\* match.groups()[0]: the lazy (.+?) stops at the first such place
DoctorNameOf(s) == SubSeq(s, 1, (CHOOSE i \in DoctorMatchAt(s) :
                                    \A k \in DoctorMatchAt(s) : i <= k) - 1)

\* the three methods whatever the doctor offers
AvailableMethods_all(doctor) == {IN_PERSON, ONLINE, BOTH}

\* available_methods (bot.py:525-533)
AvailableMethods(doctor) ==
    IF doctor.in_person_available /\ doctor.online_available
    THEN {IN_PERSON, ONLINE, BOTH}
    ELSE IF doctor.in_person_available THEN {IN_PERSON}
    ELSE IF doctor.online_available THEN {ONLINE}
    ELSE {}

\* the handler raised an exception nothing catches: the sender gets no
\* answer and the ConversationHandler keeps the state
Crash(h, u) ==
    /\ Out(u, h, "crash", "none")
    /\ UNCHANGED <<dbVars, conv, ud, dev_buttons>>

(***************************************************************************)
(* Appointment steps (bot.py:443-801)                                      *)
(***************************************************************************)
appointment_choose_specialization(u, text) ==
    LET spec_name == Strip(text)
    IN  /\ conv[u] = "APPOINTMENT_CHOOSE_SPECIALIZATION"
        /\ UNCHANGED <<dbVars, dev_buttons>>
        /\ IF spec_name = BACK
           THEN /\ ToState(u, "MAIN_MENU")
                /\ Out(u, "appointment_choose_specialization", "ok", "none")
                /\ UNCHANGED ud
           ELSE IF ~HasSpec(spec_name)
           THEN /\ ToState(u, "APPOINTMENT_CHOOSE_SPECIALIZATION")
                /\ Out(u, "appointment_choose_specialization", "invalid", "none")
                /\ UNCHANGED ud
           ELSE /\ ud' = [ud EXCEPT ![u].appointment_specialization = spec_name]
                /\ IF get_doctors_by_specialization(spec_name) = {}
                   THEN /\ ToState(u, "MAIN_MENU")
                        /\ Out(u, "appointment_choose_specialization", "invalid", "none")
                   ELSE /\ ToState(u, "APPOINTMENT_CHOOSE_DOCTOR")
                        /\ Out(u, "appointment_choose_specialization", "ok", "none")

appointment_choose_doctor(u, text) ==
    LET doc_selection == Strip(text)
        doc_name == DoctorNameOf(doc_selection)
        spec_name == ud[u].appointment_specialization
        found == {d \in get_doctors_by_specialization(spec_name) : d.name = doc_name}
        doctor == CHOOSE d \in found : \A e \in found : d.id <= e.id
        methods == AvailableMethods(doctor)
    IN  /\ conv[u] = "APPOINTMENT_CHOOSE_DOCTOR"
        /\ IF doc_selection = BACK
           THEN /\ ToState(u, "APPOINTMENT_CHOOSE_SPECIALIZATION")
                /\ Out(u, "appointment_choose_doctor", "ok", "none")
                /\ UNCHANGED <<dbVars, ud, dev_buttons>>
           ELSE IF DoctorMatchAt(doc_selection) = {}
           THEN /\ ToState(u, "APPOINTMENT_CHOOSE_DOCTOR")
                /\ Out(u, "appointment_choose_doctor", "invalid", "none")
                /\ UNCHANGED <<dbVars, ud, dev_buttons>>
           ELSE IF ~HasSpec(spec_name)
           THEN \* spec is None: spec.id raises AttributeError
                Crash("appointment_choose_doctor", u)
           ELSE IF found = {}
           THEN /\ ToState(u, "APPOINTMENT_CHOOSE_DOCTOR")
                /\ Out(u, "appointment_choose_doctor", "invalid", "none")
                /\ UNCHANGED <<dbVars, ud, dev_buttons>>
           ELSE /\ UNCHANGED <<dbVars, dev_buttons>>
                /\ IF methods = {}
                   THEN /\ ud' = [ud EXCEPT ![u].appointment_doctor_id = doctor.id]
                        /\ ToState(u, "MAIN_MENU")
                        /\ Out(u, "appointment_choose_doctor", "invalid", "none")
                   ELSE IF Cardinality(methods) = 1
                   THEN /\ ud' = [ud EXCEPT ![u].appointment_doctor_id = doctor.id,
                                           ![u].appointment_contact_method =
                                               CHOOSE m \in methods : TRUE]
                        /\ ToState(u, "APPOINTMENT_DESCRIPTION")
                        /\ Out(u, "appointment_choose_doctor", "ok", "none")
                   ELSE /\ ud' = [ud EXCEPT ![u].appointment_doctor_id = doctor.id]
                        /\ ToState(u, "APPOINTMENT_CONTACT_METHOD")
                        /\ Out(u, "appointment_choose_doctor", "ok", "none")

appointment_contact_method(u, text) ==
    LET method == Strip(text)
    IN  /\ conv[u] = "APPOINTMENT_CONTACT_METHOD"
        /\ IF method = BACK
           THEN /\ ToState(u, "APPOINTMENT_CHOOSE_DOCTOR")
                /\ Out(u, "appointment_contact_method", "ok", "none")
                /\ UNCHANGED <<dbVars, ud, dev_buttons>>
           ELSE IF method = CANCEL
           THEN CancelFrom("appointment_contact_method", u)
           ELSE IF method \notin {IN_PERSON, ONLINE, BOTH}
           THEN /\ ToState(u, "APPOINTMENT_CONTACT_METHOD")
                /\ Out(u, "appointment_contact_method", "invalid", "none")
                /\ UNCHANGED <<dbVars, ud, dev_buttons>>
           ELSE /\ ud' = [ud EXCEPT ![u].appointment_contact_method = method]
                /\ ToState(u, "APPOINTMENT_DESCRIPTION")
                /\ Out(u, "appointment_contact_method", "ok", "none")
                /\ UNCHANGED <<dbVars, dev_buttons>>

\* session.commit() moved before the notification of the developer, as
\* certificate_description has it
CommitThenNotify(u, A1, id, f) ==
    /\ appointments' = A1
    /\ IF f = "message"
       THEN /\ Out(u, "appointment_description", "failure", "message")
            /\ UNCHANGED dev_buttons
       ELSE /\ dev_buttons' = dev_buttons \cup {[kind |-> "appt", id |-> id]}
            /\ Out(u, "appointment_description", "ok", f)

\* the inner try of appointment_description (bot.py:740-787); A1 holds the
\* flushed row, id is its id
NotifyThenCommit(u, A1, id, f) ==
    IF f = "message"
    THEN \* the developer was not notified: session.rollback()
         /\ Out(u, "appointment_description", "failure", "message")
         /\ UNCHANGED <<appointments, dev_buttons>>
    ELSE \* notified (with the buttons), send_email, session.commit()
         /\ appointments' = A1
         /\ dev_buttons' = dev_buttons \cup {[kind |-> "appt", id |-> id]}
         /\ Out(u, "appointment_description", "ok", f)

\* f: the network operation that fails in this run ("none", "message", "email")
appointment_description(u, text, f) ==
    LET description == Strip(text)
        doctor_id == ud[u].appointment_doctor_id
        has_doctor == \E d \in doctors : d.id = doctor_id
        doctor == CHOOSE d \in doctors : d.id = doctor_id
        methods == AvailableMethods(doctor)
        new_appointment == [id |-> NextId(appointments),
                            user_id |-> UserOf(u).id,
                            doctor_id |-> doctor.id,
                            appointment_type |-> ud[u].appointment_specialization,
                            contact_method |-> ud[u].appointment_contact_method,
                            description |-> description,
                            status |-> "pending"]
        A1 == appointments \cup {new_appointment}
        popped == [ud EXCEPT ![u].pending_action = "none"]
    IN  /\ conv[u] = "APPOINTMENT_DESCRIPTION"
        /\ IF description = BACK
           THEN /\ f = "none"
                /\ IF ~has_doctor
                   THEN \* doctor is None: doctor.in_person_available raises
                        Crash("appointment_description", u)
                   ELSE /\ UNCHANGED <<dbVars, dev_buttons>>
                        /\ Out(u, "appointment_description", "ok", "none")
                        /\ IF Cardinality(methods) = 1
                           THEN /\ ud' = [ud EXCEPT ![u].appointment_contact_method =
                                                        CHOOSE m \in methods : TRUE]
                                /\ ToState(u, "APPOINTMENT_DESCRIPTION")
                           ELSE /\ UNCHANGED ud
                                /\ ToState(u, "APPOINTMENT_CONTACT_METHOD")
           ELSE IF description = CANCEL
           THEN f = "none" /\ CancelFrom("appointment_description", u)
           ELSE IF description = <<>>
           THEN /\ f = "none"
                /\ ToState(u, "APPOINTMENT_DESCRIPTION")
                /\ Out(u, "appointment_description", "invalid", "none")
                /\ UNCHANGED <<dbVars, ud, dev_buttons>>
           ELSE IF ~HasUser(u)
           THEN \* not registered: register first; nothing is created later
                \* ('make_appointment' is `pass` in register_phone)
                /\ f = "none"
                /\ ud' = [ud EXCEPT ![u].pending_action = "make_appointment"]
                /\ ToState(u, "REGISTER_NAME")
                /\ Out(u, "appointment_description", "ok", "none")
                /\ UNCHANGED <<dbVars, dev_buttons>>
           ELSE IF ~has_doctor
           THEN /\ f = "none"
                /\ ToState(u, "MAIN_MENU")
                /\ Out(u, "appointment_description", "invalid", "none")
                /\ UNCHANGED <<dbVars, ud, dev_buttons>>
           ELSE /\ Cardinality(appointments) < MaxAppts
                /\ ToState(u, "MAIN_MENU")
                /\ ud' = popped
                /\ UNCHANGED <<users, specializations, doctors, certificates>>
                /\ IF ~IntegrityOk(users, specializations, doctors, A1, certificates)
                   THEN \* session.flush() raises: the outer except Exception
                        /\ f = "none"
                        /\ Out(u, "appointment_description", "failure", "none")
                        /\ UNCHANGED <<appointments, dev_buttons>>
                   ELSE NotifyThenCommit(u, A1, new_appointment.id, f)

(***************************************************************************)
(* Developer inline actions on appointments (bot.py:2012-2116).  A button  *)
(* stays usable: a second press can be on its way before the edited        *)
(* message reaches the developer's client.                                 *)
(***************************************************************************)
\* confirm_appointment and reject_appointment without `appt.status == 'pending'`
DecideAppointmentAnyStatus(h, appt_id, status, f) ==
    LET found == \E a \in appointments : a.id = appt_id
        appt == CHOOSE a \in appointments : a.id = appt_id
        A1 == (appointments \ {appt}) \cup {[appt EXCEPT !.status = status]}
    IN  /\ [kind |-> "appt", id |-> appt_id] \in dev_buttons
        /\ UNCHANGED <<users, specializations, doctors, certificates, conv, ud, dev_buttons>>
        /\ IF found
           THEN appointments' = A1 /\ Out(DEVELOPER_CHAT_ID, h, "ok", f)
           ELSE f = "none" /\ UNCHANGED appointments
                     /\ Out(DEVELOPER_CHAT_ID, h, "invalid", "none")

\* f: the network operation that fails in this run ("none", "message", "email");
\* a failing notification of the user is logged and the handler goes on
DecideAppointment(h, appt_id, status, f) ==
    LET found == \E a \in appointments : a.id = appt_id
        appt == CHOOSE a \in appointments : a.id = appt_id
        A1 == (appointments \ {appt}) \cup {[appt EXCEPT !.status = status]}
    IN  /\ [kind |-> "appt", id |-> appt_id] \in dev_buttons
        /\ UNCHANGED <<users, specializations, doctors, certificates, conv, ud, dev_buttons>>
        /\ IF found /\ appt.status = "pending"
           THEN IF IntegrityOk(users, specializations, doctors, A1, certificates)
                THEN appointments' = A1 /\ Out(DEVELOPER_CHAT_ID, h, "ok", f)
                ELSE f = "none" /\ UNCHANGED appointments
                     /\ Out(DEVELOPER_CHAT_ID, h, "db_error", "none")
           ELSE f = "none" /\ UNCHANGED appointments
                     /\ Out(DEVELOPER_CHAT_ID, h, "invalid", "none")

\* confirm_appointment writing the certificates' word for it
confirm_appointment_approved(appt_id, f) ==
    DecideAppointment("confirm_appointment", appt_id, "approved", f)

confirm_appointment(appt_id, f) ==
    DecideAppointment("confirm_appointment", appt_id, "confirmed", f)

reject_appointment(appt_id, f) ==
    DecideAppointment("reject_appointment", appt_id, "rejected", f)

(***************************************************************************)
(* Payment steps (bot.py:1176-1351)                                        *)
(***************************************************************************)
Digits == {"0", "1", "2", "3", "4", "5", "6", "7", "8", "9"}

DigitValue(c) ==
    CASE c = "0" -> 0 [] c = "1" -> 1 [] c = "2" -> 2 [] c = "3" -> 3 [] c = "4" -> 4
      [] c = "5" -> 5 [] c = "6" -> 6 [] c = "7" -> 7 [] c = "8" -> 8 [] c = "9" -> 9

\* str.isdigit()
isdigit(s) == s # <<>> /\ \A i \in 1..Len(s) : s[i] \in Digits

\* int(s) of a string of digits
RECURSIVE int(_)
int(s) == IF s = <<>> THEN 0
          ELSE 10 * int(SubSeq(s, 1, Len(s) - 1)) + DigitValue(s[Len(s)])

payment_appointment_id_handler(u, text) ==
    LET appointment_id_text == Strip(text)
        appointment_id == int(appointment_id_text)
        found == \E a \in appointments : a.id = appointment_id
        appointment == CHOOSE a \in appointments : a.id = appointment_id
    IN  /\ conv[u] = "PAYMENT_APPOINTMENT_ID"
        /\ UNCHANGED <<dbVars, dev_buttons>>
        /\ IF appointment_id_text = BACK
           THEN /\ ToState(u, "MAIN_MENU")
                /\ Out(u, "payment_appointment_id_handler", "ok", "none")
                /\ UNCHANGED ud
           ELSE IF appointment_id_text = CANCEL
           THEN /\ ToState(u, "MAIN_MENU")
                /\ Out(u, "payment_appointment_id_handler", "cancel", "none")
                /\ UNCHANGED ud
           ELSE IF ~isdigit(appointment_id_text) \/ ~found
           THEN /\ ToState(u, "PAYMENT_APPOINTMENT_ID")
                /\ Out(u, "payment_appointment_id_handler", "invalid", "none")
                /\ UNCHANGED ud
           ELSE IF ~HasUser(u) \/ appointment.user_id # UserOf(u).id
                     \/ appointment.status \notin {"pending", "confirmed"}
           THEN /\ ToState(u, "MAIN_MENU")
                /\ Out(u, "payment_appointment_id_handler", "invalid", "none")
                /\ UNCHANGED ud
           ELSE /\ ud' = [ud EXCEPT ![u].payment_appointment_id = appointment_id]
                /\ ToState(u, "PAYMENT_RECEIPT")
                /\ Out(u, "payment_appointment_id_handler", "ok", "none")

\* photo: the update carries a photo (filters.PHOTO), else it is the text;
\* f: the network operation that fails ("none", "get_file", "download", "photo")
payment_receipt_handler(u, photo, text, f) ==
    LET t == Strip(text)
        popped == [ud EXCEPT ![u].payment_appointment_id = 0]
    IN  /\ conv[u] = "PAYMENT_RECEIPT"
        /\ UNCHANGED <<dbVars, dev_buttons>>
        /\ IF ~HasUser(u) \/ ud[u].payment_appointment_id = 0
           THEN /\ f = "none"
                /\ ToState(u, "MAIN_MENU")
                /\ Out(u, "payment_receipt_handler", "invalid", "none")
                /\ UNCHANGED ud
           ELSE IF photo
           THEN IF f = "get_file"
                THEN \* `await photo.get_file()` stands before the try
                     /\ Out(u, "payment_receipt_handler", "crash", "get_file")
                     /\ UNCHANGED <<conv, ud>>
                ELSE IF f = "download"
                THEN /\ ToState(u, "MAIN_MENU")
                     /\ Out(u, "payment_receipt_handler", "failure", "download")
                     /\ UNCHANGED ud
                ELSE IF f = "photo"
                THEN /\ ToState(u, "MAIN_MENU")
                     /\ Out(u, "payment_receipt_handler", "failure", "photo")
                     /\ ud' = popped
                ELSE /\ f = "none"
                     /\ ToState(u, "MAIN_MENU")
                     /\ Out(u, "payment_receipt_handler", "ok", "none")
                     /\ ud' = popped
           ELSE /\ f = "none"
                /\ UNCHANGED ud
                /\ IF t = BACK
                   THEN /\ ToState(u, "MAIN_MENU")
                        /\ Out(u, "payment_receipt_handler", "ok", "none")
                   ELSE IF t = CANCEL
                   THEN /\ ToState(u, "MAIN_MENU")
                        /\ Out(u, "payment_receipt_handler", "cancel", "none")
                   ELSE /\ ToState(u, "PAYMENT_RECEIPT")
                        /\ Out(u, "payment_receipt_handler", "invalid", "none")

(***************************************************************************)
(* Contact us (bot.py:1952-1986)                                           *)
(***************************************************************************)
\* f: the network operation that fails in this run ("none", "message")
send_message_to_developer(u, text, f) ==
    LET message == Strip(text)
    IN  /\ conv[u] = "SEND_MESSAGE_TO_DEVELOPER"
        /\ UNCHANGED <<dbVars, ud, dev_buttons>>
        /\ IF message = BACK
           THEN f = "none" /\ ToState(u, "MAIN_MENU")
                /\ Out(u, "send_message_to_developer", "ok", "none")
           ELSE IF message = CANCEL
           THEN f = "none" /\ ToState(u, "MAIN_MENU")
                /\ Out(u, "send_message_to_developer", "cancel", "none")
           ELSE IF message = <<>>
           THEN f = "none" /\ ToState(u, "SEND_MESSAGE_TO_DEVELOPER")
                /\ Out(u, "send_message_to_developer", "invalid", "none")
           ELSE /\ f \in {"none", "message"}
                /\ ToState(u, "MAIN_MENU")
                /\ Out(u, "send_message_to_developer",
                       IF f = "message" THEN "failure" ELSE "ok", f)

(***************************************************************************)
(* Developer menu (bot.py:1358-1751, 1882-1945)                            *)
(***************************************************************************)
D_MANAGE == <<"[dev:manage-specializations]">>
D_ADD_DOCTOR == <<"[dev:add-doctor]">>
D_REMOVE_DOCTOR == <<"[dev:remove-doctor]">>
D_STATISTICS == <<"[dev:statistics]">>
D_SEND_MESSAGE == <<"[dev:send-message]">>
S_ADD == <<"[spec:add]">>
S_REMOVE == <<"[spec:remove]">>

developer_menu_handler(u, text) ==
    LET choice == Strip(text)
        to == CASE choice = D_MANAGE -> "DEV_MANAGE_SPECIALIZATIONS"
                [] choice = D_ADD_DOCTOR ->
                       IF specializations = {} THEN "DEVELOPER_MENU"
                       ELSE "DEV_ADD_DOCTOR_CHOOSE_SPECIALIZATION"
                [] choice = D_REMOVE_DOCTOR ->
                       IF specializations = {} THEN "DEVELOPER_MENU"
                       ELSE "DEV_REMOVE_SPECIALIZATION_SELECT"
                [] choice = D_STATISTICS -> "DEVELOPER_MENU"
                [] choice = D_SEND_MESSAGE -> "SEND_MESSAGE_TO_USER"
                [] choice = BACK -> "MAIN_MENU"
                [] OTHER -> "DEVELOPER_MENU"
        refused == \/ choice \in {D_ADD_DOCTOR, D_REMOVE_DOCTOR} /\ specializations = {}
                   \/ choice \notin {D_MANAGE, D_ADD_DOCTOR, D_REMOVE_DOCTOR, D_STATISTICS,
                                     D_SEND_MESSAGE, BACK}
    IN  /\ conv[u] = "DEVELOPER_MENU"
        /\ ToState(u, to)
        /\ Out(u, "developer_menu_handler", IF refused THEN "invalid" ELSE "ok", "none")
        /\ UNCHANGED <<dbVars, ud, dev_buttons>>

dev_manage_specializations(u, text) ==
    LET choice == Strip(text)
        to == CASE choice = S_ADD -> "DEV_ADD_SPECIALIZATION"
                [] choice = S_REMOVE ->
                       IF specializations = {} THEN "DEVELOPER_MENU"
                       ELSE "DEV_REMOVE_SPECIALIZATION_SELECT"
                [] choice = BACK -> "DEVELOPER_MENU"
                [] choice = CANCEL -> "MAIN_MENU"
                [] OTHER -> "DEV_MANAGE_SPECIALIZATIONS"
        reply == CASE choice = CANCEL -> "cancel"
                   [] choice = S_REMOVE /\ specializations = {} -> "invalid"
                   [] choice \notin {S_ADD, S_REMOVE, BACK, CANCEL} -> "invalid"
                   [] OTHER -> "ok"
    IN  /\ conv[u] = "DEV_MANAGE_SPECIALIZATIONS"
        /\ ToState(u, to)
        /\ Out(u, "dev_manage_specializations", reply, "none")
        /\ UNCHANGED <<dbVars, ud, dev_buttons>>

dev_add_specialization(u, text) ==
    LET spec_name == Strip(text)
        S1 == specializations \cup {[id |-> NextId(specializations), name |-> spec_name]}
    IN  /\ conv[u] = "DEV_ADD_SPECIALIZATION"
        /\ UNCHANGED <<users, doctors, appointments, certificates, ud, dev_buttons>>
        /\ IF spec_name = BACK
           THEN /\ ToState(u, "DEVELOPER_MENU")
                /\ Out(u, "dev_add_specialization", "ok", "none")
                /\ UNCHANGED specializations
           ELSE IF spec_name = CANCEL
           THEN /\ ToState(u, "MAIN_MENU")
                /\ Out(u, "dev_add_specialization", "cancel", "none")
                /\ UNCHANGED specializations
           ELSE IF spec_name = <<>> \/ HasSpec(spec_name)
           THEN /\ ToState(u, "DEV_ADD_SPECIALIZATION")
                /\ Out(u, "dev_add_specialization", "invalid", "none")
                /\ UNCHANGED specializations
           ELSE IF ~IntegrityOk(users, S1, doctors, appointments, certificates)
           THEN \* except IntegrityError: session.rollback()
                /\ ToState(u, "DEV_MANAGE_SPECIALIZATIONS")
                /\ Out(u, "dev_add_specialization", "db_error", "none")
                /\ UNCHANGED specializations
           ELSE /\ specializations' = S1
                /\ ToState(u, "DEVELOPER_MENU")
                /\ Out(u, "dev_add_specialization", "ok", "none")

dev_remove_specialization_select(u, text) ==
    LET spec_name == Strip(text)
    IN  /\ conv[u] = "DEV_REMOVE_SPECIALIZATION_SELECT"
        /\ UNCHANGED <<dbVars, dev_buttons>>
        /\ IF spec_name = BACK
           THEN /\ ToState(u, "DEVELOPER_MENU")
                /\ Out(u, "dev_remove_specialization_select", "ok", "none")
                /\ UNCHANGED ud
           ELSE IF ~HasSpec(spec_name)
           THEN /\ ToState(u, "DEVELOPER_MENU")
                /\ Out(u, "dev_remove_specialization_select", "invalid", "none")
                /\ UNCHANGED ud
           ELSE /\ ud' = [ud EXCEPT ![u].remove_specialization_id = SpecOf(spec_name).id]
                /\ ToState(u, "CONFIRM_REMOVE_SPEC")
                /\ Out(u, "dev_remove_specialization_select", "ok", "none")

\* a specialization whose doctors are not looked up
DoctorsOfSpec_none(spec_id) == {}

\* spec.doctors taken for every doctor there is
DoctorsOfSpec_all(spec_id) == doctors

\* spec.doctors: relationship("Doctor", back_populates="specialization")
DoctorsOfSpec(spec_id) == {d \in doctors : d.specialization_id = spec_id}

\* f: the network operation that fails in this run ("none", "message"); a
\* failing notification of a user is logged and the removal goes on
confirm_remove_spec(u, text, f) ==
    LET confirmation == Strip(text)
        spec_id == ud[u].remove_specialization_id
        found == \E sp \in specializations : sp.id = spec_id
        spec == CHOOSE sp \in specializations : sp.id = spec_id
        gone_doctors == DoctorsOfSpec(spec_id)
        gone_appts == {a \in appointments : \E d \in gone_doctors : a.doctor_id = d.id}
        notified == {a \in gone_appts : a.status \in {"pending", "confirmed"}}
        S1 == specializations \ {spec}
        D1 == doctors \ gone_doctors
        A1 == appointments \ gone_appts
        popped == [ud EXCEPT ![u].remove_specialization_id = 0]
    IN  /\ conv[u] = "CONFIRM_REMOVE_SPEC"
        /\ UNCHANGED <<users, certificates, dev_buttons>>
        /\ IF confirmation = YES
           THEN /\ ToState(u, "DEVELOPER_MENU")
                /\ IF ~found
                   THEN /\ f = "none"
                        /\ Out(u, "confirm_remove_spec", "invalid", "none")
                        /\ UNCHANGED <<specializations, doctors, appointments, ud>>
                   ELSE /\ f = "message" => notified # {}
                        /\ ud' = popped
                        /\ IF IntegrityOk(users, S1, D1, A1, certificates)
                           THEN /\ specializations' = S1
                                /\ doctors' = D1
                                /\ appointments' = A1
                                /\ Out(u, "confirm_remove_spec", "ok", f)
                           ELSE \* except IntegrityError: session.rollback()
                                /\ Out(u, "confirm_remove_spec", "db_error", f)
                                /\ UNCHANGED <<specializations, doctors, appointments>>
           ELSE IF confirmation = NO
           THEN /\ f = "none"
                /\ ToState(u, "DEVELOPER_MENU")
                /\ Out(u, "confirm_remove_spec", "declined", "none")
                /\ ud' = popped
                /\ UNCHANGED <<specializations, doctors, appointments>>
           ELSE /\ f = "none"
                /\ ToState(u, "CONFIRM_REMOVE_SPEC")
                /\ Out(u, "confirm_remove_spec", "invalid", "none")
                /\ UNCHANGED <<specializations, doctors, appointments, ud>>

dev_add_doctor_choose_specialization(u, text) ==
    LET spec_name == Strip(text)
    IN  /\ conv[u] = "DEV_ADD_DOCTOR_CHOOSE_SPECIALIZATION"
        /\ UNCHANGED <<dbVars, dev_buttons>>
        /\ IF spec_name = BACK
           THEN /\ ToState(u, "DEVELOPER_MENU")
                /\ Out(u, "dev_add_doctor_choose_specialization", "ok", "none")
                /\ UNCHANGED ud
           ELSE IF ~HasSpec(spec_name)
           THEN /\ ToState(u, "DEV_ADD_DOCTOR_CHOOSE_SPECIALIZATION")
                /\ Out(u, "dev_add_doctor_choose_specialization", "invalid", "none")
                /\ UNCHANGED ud
           ELSE /\ ud' = [ud EXCEPT ![u].add_doctor_specialization_id = SpecOf(spec_name).id]
                /\ ToState(u, "DEV_ADD_DOCTOR_NAME")
                /\ Out(u, "dev_add_doctor_choose_specialization", "ok", "none")

dev_add_doctor_name(u, text) ==
    LET doc_name == Strip(text)
        spec_id == ud[u].add_doctor_specialization_id
    IN  /\ conv[u] = "DEV_ADD_DOCTOR_NAME"
        /\ UNCHANGED <<dbVars, dev_buttons>>
        /\ IF doc_name = BACK
           THEN /\ ToState(u, "DEV_ADD_DOCTOR_CHOOSE_SPECIALIZATION")
                /\ Out(u, "dev_add_doctor_name", "ok", "none")
                /\ UNCHANGED ud
           ELSE IF doc_name = CANCEL
           THEN /\ ToState(u, "MAIN_MENU")
                /\ Out(u, "dev_add_doctor_name", "cancel", "none")
                /\ UNCHANGED ud
           ELSE IF doc_name = <<>>
                     \/ \E d \in doctors : d.name = doc_name /\ d.specialization_id = spec_id
           THEN /\ ToState(u, "DEV_ADD_DOCTOR_NAME")
                /\ Out(u, "dev_add_doctor_name", "invalid", "none")
                /\ UNCHANGED ud
           ELSE /\ ud' = [ud EXCEPT ![u].add_doctor_name = doc_name]
                /\ ToState(u, "DEV_ADD_DOCTOR_AVAILABILITY")
                /\ Out(u, "dev_add_doctor_name", "ok", "none")

dev_add_doctor_availability(u, text) ==
    LET availability_choice == Strip(text)
        doctor == [id |-> NextId(doctors),
                   name |-> ud[u].add_doctor_name,
                   specialization_id |-> ud[u].add_doctor_specialization_id,
                   in_person_available |-> availability_choice \in {IN_PERSON, BOTH},
                   online_available |-> availability_choice \in {ONLINE, BOTH}]
        D1 == doctors \cup {doctor}
    IN  /\ conv[u] = "DEV_ADD_DOCTOR_AVAILABILITY"
        /\ UNCHANGED <<users, specializations, appointments, certificates, dev_buttons>>
        /\ IF availability_choice = BACK
           THEN /\ ToState(u, "DEV_ADD_DOCTOR_NAME")
                /\ Out(u, "dev_add_doctor_availability", "ok", "none")
                /\ UNCHANGED <<doctors, ud>>
           ELSE IF availability_choice = CANCEL
           THEN /\ ToState(u, "MAIN_MENU")
                /\ Out(u, "dev_add_doctor_availability", "cancel", "none")
                /\ UNCHANGED <<doctors, ud>>
           ELSE IF availability_choice \notin {IN_PERSON, ONLINE, BOTH}
           THEN /\ ToState(u, "DEV_ADD_DOCTOR_AVAILABILITY")
                /\ Out(u, "dev_add_doctor_availability", "invalid", "none")
                /\ UNCHANGED <<doctors, ud>>
           ELSE /\ ToState(u, "DEVELOPER_MENU")
                /\ IF IntegrityOk(users, specializations, D1, appointments, certificates)
                   THEN /\ doctors' = D1
                        /\ ud' = [ud EXCEPT ![u].add_doctor_specialization_id = 0,
                                            ![u].add_doctor_name = NULL]
                        /\ Out(u, "dev_add_doctor_availability", "ok", "none")
                   ELSE \* except IntegrityError: session.rollback()
                        /\ Out(u, "dev_add_doctor_availability", "db_error", "none")
                        /\ UNCHANGED <<doctors, ud>>

\* user_input.split(' ', 1): the place of the first space, 0 when there is none
FirstSpace(s) ==
    IF \E i \in 1..Len(s) : s[i] = SP
    THEN CHOOSE i \in 1..Len(s) : s[i] = SP /\ \A k \in 1..(i - 1) : s[k] # SP
    ELSE 0

\* int(parts[0]) does not raise ValueError: digits, after an optional sign
IsInt(s) ==
    \/ isdigit(s)
    \/ Len(s) > 1 /\ s[1] \in {"+", "-"} /\ isdigit(Tail(s))

\* f: the network operation that fails in this run ("none", "message")
send_message_to_user(u, text, f) ==
    LET user_input == Strip(text)
        at == FirstSpace(user_input)
    IN  /\ conv[u] = "SEND_MESSAGE_TO_USER"
        /\ ToState(u, "DEVELOPER_MENU")
        /\ UNCHANGED <<dbVars, ud, dev_buttons>>
        /\ IF at = 0 \/ ~IsInt(SubSeq(user_input, 1, at - 1))
           THEN f = "none" /\ Out(u, "send_message_to_user", "invalid", "none")
           ELSE /\ f \in {"none", "message"}
                /\ Out(u, "send_message_to_user", IF f = "message" THEN "failure" ELSE "ok", f)

(***************************************************************************)
(* Inputs.                                                                 *)
(***************************************************************************)
Blank == <<SP>>
NAME_A == <<"A">>
NAME_7 == <<"7">>
PHONE_X == <<"x">>
PHONE_9 == <<"9">>
EMAIL_A == <<"a", "@", "b", ".", "c">>
EMAIL_C == <<"c", "@", "b", ".", "c">>
EMAIL_TWO_AT == <<"a", "@", "b", ".", "c", "@", "d">>
EMAIL_NO_DOT == <<"a", "@", "b">>
DESCRIPTION == <<"d">>
NoFault == {"none"}
CertIds == 1..MaxCerts

(***************************************************************************)
(* Registration and profile: chat DEVELOPER_CHAT_ID is registered (the     *)
(* database file outlives the process, the conversations do not); the      *)
(* other chat registers through a certificate request.                     *)
(***************************************************************************)
InitProfile ==
    /\ users = {[id |-> 1, telegram_id |-> DEVELOPER_CHAT_ID,
                 name |-> NAME_A, email |-> EMAIL_A, phone |-> PHONE_9]}
    /\ specializations = {}
    /\ doctors = {}
    /\ appointments = {}
    /\ certificates = {}
    /\ conv = [u \in Chats |-> "NONE"]
    /\ ud = [u \in Chats |-> NoData]
    /\ dev_buttons = {}
    /\ last = [chat |-> 0, handler |-> "init", reply |-> "silent", fault |-> "none"]

NextProfile ==
    \/ \E u \in Chats : start(u)
    \/ \E u \in Chats : \E t \in {M_CERTIFICATE, M_EDIT_PROFILE} : main_menu_handler(u, t)
    \/ \E u \in Chats : \E t \in {R_CLUB} : certificate_reason(u, t)
    \/ \E u \in Chats : \E t \in {DESCRIPTION} : \E f \in NoFault :
           certificate_description(u, t, f)
    \/ \E u \in Chats : \E t \in {Blank, NAME_7} : register_name(u, t)
    \/ \E u \in Chats : \E t \in {EMAIL_A, EMAIL_C, EMAIL_TWO_AT, EMAIL_NO_DOT} :
           register_email(u, t)
    \/ \E u \in Chats : \E t \in {Blank, PHONE_X} : \E f \in NoFault :
           register_phone(u, t, f)
    \/ \E u \in Chats : \E t \in {E_NAME, E_PHONE, E_EMAIL} : edit_profile_menu(u, t)
    \/ \E u \in Chats : \E t \in {Blank, NAME_7} : edit_name(u, t)
    \/ \E u \in Chats : \E t \in {Blank, PHONE_X} : edit_phone(u, t)
    \/ \E u \in Chats : \E t \in {EMAIL_A, EMAIL_C, EMAIL_TWO_AT, EMAIL_NO_DOT} :
           edit_email(u, t)

SpecProfile == InitProfile /\ [][NextProfile]_vars

(***************************************************************************)
(* The whole bot from an empty database: the developer chat keeps the      *)
(* catalog and decides on the requests, the other chat registers, books,   *)
(* pays and writes; every network operation may fail.                      *)
(***************************************************************************)
PATIENT == DEVELOPER_CHAT_ID + 1
SPEC_S == <<"S">>
DOC_D == <<"D">>
BUTTON_BOTH == DOC_D \o <<" ", "(">> \o IN_PERSON \o <<" ", "&", " ">> \o ONLINE \o <<")">>
BUTTON_ONLINE == DOC_D \o <<" ", "(">> \o ONLINE \o <<")">>
TO_PATIENT == <<"2", SP, "d">>
TO_NOBODY == <<"x", SP, "d">>
ID_1 == <<"1">>
ID_2 == <<"2">>
ApptIds == 1..MaxAppts
MessageFaults == {"none", "message"}
RequestFaults == {"none", "message", "email"}
ReceiptFaults == {"none", "get_file", "download", "photo"}

\* the developer chat keeps the catalog
NextCatalog ==
    \/ main_menu_handler(DEVELOPER_CHAT_ID, M_DEVELOPER)
    \/ \E t \in {D_MANAGE, D_ADD_DOCTOR, D_REMOVE_DOCTOR} :
           developer_menu_handler(DEVELOPER_CHAT_ID, t)
    \/ \E t \in {S_ADD, S_REMOVE} : dev_manage_specializations(DEVELOPER_CHAT_ID, t)
    \/ dev_add_specialization(DEVELOPER_CHAT_ID, SPEC_S)
    \/ dev_remove_specialization_select(DEVELOPER_CHAT_ID, SPEC_S)
    \/ \E t \in {YES, NO} : \E f \in MessageFaults : confirm_remove_spec(DEVELOPER_CHAT_ID, t, f)
    \/ dev_add_doctor_choose_specialization(DEVELOPER_CHAT_ID, SPEC_S)
    \/ dev_add_doctor_name(DEVELOPER_CHAT_ID, DOC_D)
    \/ \E t \in {BOTH, ONLINE} : dev_add_doctor_availability(DEVELOPER_CHAT_ID, t)

\* the other chat books and pays
NextBooking ==
    \/ \E t \in {M_APPOINTMENT, M_PAYMENT} : main_menu_handler(PATIENT, t)
    \/ appointment_choose_specialization(PATIENT, SPEC_S)
    \/ \E t \in {BUTTON_BOTH, BUTTON_ONLINE} : appointment_choose_doctor(PATIENT, t)
    \/ appointment_contact_method(PATIENT, ONLINE)
    \/ \E t \in {DESCRIPTION, BACK} : \E f \in RequestFaults :
           appointment_description(PATIENT, t, f)
    \/ \E t \in {ID_1, ID_2} : payment_appointment_id_handler(PATIENT, t)
    \/ \E photo \in BOOLEAN : \E f \in ReceiptFaults :
           payment_receipt_handler(PATIENT, photo, DESCRIPTION, f)

\* the buttons under the developer's notifications of appointments
NextDecideAppointment ==
    \/ \E i \in ApptIds : \E f \in RequestFaults : confirm_appointment(i, f)
    \/ \E i \in ApptIds : \E f \in RequestFaults : reject_appointment(i, f)

InitBooking ==
    /\ users = {[id |-> 1, telegram_id |-> PATIENT,
                 name |-> NAME_A, email |-> EMAIL_A, phone |-> PHONE_9]}
    /\ specializations = {}
    /\ doctors = {}
    /\ appointments = {}
    /\ certificates = {}
    /\ conv = [u \in Chats |-> "NONE"]
    /\ ud = [u \in Chats |-> NoData]
    /\ dev_buttons = {}
    /\ last = [chat |-> 0, handler |-> "init", reply |-> "silent", fault |-> "none"]

NextBookingSpec ==
    \/ \E u \in Chats : start(u)
    \/ NextCatalog
    \/ NextBooking
    \/ NextDecideAppointment

SpecBooking == InitBooking /\ [][NextBookingSpec]_vars

(***************************************************************************)
(* Certificates and messages from an empty database: the other chat asks   *)
(* for certificates (the first request registers it) and writes to the     *)
(* developer, the developer decides on the requests and writes back.       *)
(***************************************************************************)
NextCertificates ==
    \/ \E t \in {M_CERTIFICATE, M_CONTACT} : main_menu_handler(PATIENT, t)
    \/ certificate_reason(PATIENT, R_CLUB)
    \/ \E f \in RequestFaults : certificate_description(PATIENT, DESCRIPTION, f)
    \/ register_name(PATIENT, NAME_A)
    \/ register_email(PATIENT, EMAIL_A)
    \/ \E f \in RequestFaults : register_phone(PATIENT, PHONE_9, f)
    \/ \E f \in MessageFaults : send_message_to_developer(PATIENT, DESCRIPTION, f)

\* the buttons under the developer's notifications of certificate requests
NextDecideCertificate ==
    \/ \E i \in CertIds : \E f \in RequestFaults : approve_certificate(i, f)
    \/ \E i \in CertIds : \E f \in RequestFaults : reject_certificate(i, f)

NextMessages ==
    \/ main_menu_handler(DEVELOPER_CHAT_ID, M_DEVELOPER)
    \/ \E t \in {D_STATISTICS, D_SEND_MESSAGE} : developer_menu_handler(DEVELOPER_CHAT_ID, t)
    \/ \E t \in {TO_PATIENT, TO_NOBODY} : \E f \in MessageFaults :
           send_message_to_user(DEVELOPER_CHAT_ID, t, f)

NextCertificatesSpec ==
    \/ \E u \in Chats : start(u)
    \/ \E u \in Chats : cancel_command(u)
    \/ \E u \in Chats : restart_command(u)
    \/ NextCertificates
    \/ NextDecideCertificate
    \/ NextMessages

SpecCertificates == Init /\ [][NextCertificatesSpec]_vars

(***************************************************************************)
(* Every conversation state in one chat: the developer chat alone goes     *)
(* through registration, the requests, the payment, the profile and the    *)
(* developer menu, and sends the three commands from wherever it is.       *)
(***************************************************************************)
NextWalk ==
    \/ \E t \in {M_APPOINTMENT, M_CERTIFICATE, M_HISTORY, M_PAYMENT, M_CONTACT,
                 M_EDIT_PROFILE, M_DEVELOPER} : main_menu_handler(DEVELOPER_CHAT_ID, t)
    \/ appointment_choose_specialization(DEVELOPER_CHAT_ID, SPEC_S)
    \/ appointment_choose_doctor(DEVELOPER_CHAT_ID, BUTTON_BOTH)
    \/ appointment_contact_method(DEVELOPER_CHAT_ID, ONLINE)
    \/ appointment_description(DEVELOPER_CHAT_ID, DESCRIPTION, "none")
    \/ certificate_reason(DEVELOPER_CHAT_ID, R_CLUB)
    \/ certificate_description(DEVELOPER_CHAT_ID, DESCRIPTION, "none")
    \/ register_name(DEVELOPER_CHAT_ID, NAME_A)
    \/ register_email(DEVELOPER_CHAT_ID, EMAIL_A)
    \/ register_phone(DEVELOPER_CHAT_ID, PHONE_9, "none")
    \/ payment_appointment_id_handler(DEVELOPER_CHAT_ID, ID_1)
    \/ payment_receipt_handler(DEVELOPER_CHAT_ID, TRUE, DESCRIPTION, "none")
    \/ send_message_to_developer(DEVELOPER_CHAT_ID, DESCRIPTION, "none")
    \/ \E t \in {E_NAME, E_PHONE, E_EMAIL} : edit_profile_menu(DEVELOPER_CHAT_ID, t)
    \/ edit_name(DEVELOPER_CHAT_ID, NAME_7)
    \/ edit_phone(DEVELOPER_CHAT_ID, PHONE_X)
    \/ edit_email(DEVELOPER_CHAT_ID, EMAIL_C)
    \/ \E t \in {D_MANAGE, D_ADD_DOCTOR, D_REMOVE_DOCTOR, D_SEND_MESSAGE} :
           developer_menu_handler(DEVELOPER_CHAT_ID, t)
    \/ \E t \in {S_ADD, S_REMOVE} : dev_manage_specializations(DEVELOPER_CHAT_ID, t)
    \/ dev_add_specialization(DEVELOPER_CHAT_ID, SPEC_S)
    \/ dev_remove_specialization_select(DEVELOPER_CHAT_ID, SPEC_S)
    \/ confirm_remove_spec(DEVELOPER_CHAT_ID, YES, "none")
    \/ dev_add_doctor_choose_specialization(DEVELOPER_CHAT_ID, SPEC_S)
    \/ dev_add_doctor_name(DEVELOPER_CHAT_ID, DOC_D)
    \/ dev_add_doctor_availability(DEVELOPER_CHAT_ID, BOTH)
    \/ send_message_to_user(DEVELOPER_CHAT_ID, TO_PATIENT, "none")

NextCommands ==
    \/ start(DEVELOPER_CHAT_ID)
    \/ cancel_command(DEVELOPER_CHAT_ID)
    \/ restart_command(DEVELOPER_CHAT_ID)
    \/ NextWalk

SpecCommands == Init /\ [][NextCommands]_vars

(***************************************************************************)
(* Two specializations with a doctor each are in the database when the bot *)
(* starts (the database file outlives the process): the developer chat     *)
(* removes specializations while the other chat, registered, books.        *)
(***************************************************************************)
SPEC_T == <<"T">>
TwoSpecs == {SPEC_S, SPEC_T}

InitTwoSpecs ==
    /\ users = {[id |-> 1, telegram_id |-> PATIENT,
                 name |-> NAME_A, email |-> EMAIL_A, phone |-> PHONE_9]}
    /\ specializations = {[id |-> 1, name |-> SPEC_S], [id |-> 2, name |-> SPEC_T]}
    /\ doctors = {[id |-> 1, name |-> DOC_D, specialization_id |-> 1,
                   in_person_available |-> FALSE, online_available |-> TRUE],
                  [id |-> 2, name |-> DOC_D, specialization_id |-> 2,
                   in_person_available |-> FALSE, online_available |-> TRUE]}
    /\ appointments = {}
    /\ certificates = {}
    /\ conv = [u \in Chats |-> "NONE"]
    /\ ud = [u \in Chats |-> NoData]
    /\ dev_buttons = {}
    /\ last = [chat |-> 0, handler |-> "init", reply |-> "silent", fault |-> "none"]

NextTwoSpecs ==
    \/ \E u \in Chats : start(u)
    \/ main_menu_handler(DEVELOPER_CHAT_ID, M_DEVELOPER)
    \/ developer_menu_handler(DEVELOPER_CHAT_ID, D_MANAGE)
    \/ dev_manage_specializations(DEVELOPER_CHAT_ID, S_REMOVE)
    \/ \E t \in TwoSpecs : dev_remove_specialization_select(DEVELOPER_CHAT_ID, t)
    \/ \E t \in {YES, NO} : \E f \in MessageFaults :
           confirm_remove_spec(DEVELOPER_CHAT_ID, t, f)
    \/ main_menu_handler(PATIENT, M_APPOINTMENT)
    \/ \E t \in TwoSpecs : appointment_choose_specialization(PATIENT, t)
    \/ appointment_choose_doctor(PATIENT, BUTTON_ONLINE)
    \/ appointment_description(PATIENT, DESCRIPTION, "none")
    \/ \E i \in ApptIds : confirm_appointment(i, "none")

SpecTwoSpecs == InitTwoSpecs /\ [][NextTwoSpecs]_vars

(***************************************************************************)
(* The "remove doctor" button, from the same database: the developer chat  *)
(* enters the removal steps by this button only (never by "remove          *)
(* specialization"), while the other chat books.  The button's branch of   *)
(* developer_menu_handler returns DEV_REMOVE_SPECIALIZATION_SELECT         *)
(* (bot.py:1390); no handler returns DEV_REMOVE_DOCTOR_CHOOSE_             *)
(* SPECIALization, so dev_remove_doctor_choose_specialization,             *)
(* DEV_REMOVE_DOCTOR_SELECT and confirm_remove_doctor (bot.py:1758-1875)   *)
(* never run and are no action here.                                       *)
(***************************************************************************)
NextRemoveDoctor ==
    \/ \E u \in Chats : start(u)
    \/ main_menu_handler(DEVELOPER_CHAT_ID, M_DEVELOPER)
    \/ developer_menu_handler(DEVELOPER_CHAT_ID, D_REMOVE_DOCTOR)
    \/ \E t \in TwoSpecs : dev_remove_specialization_select(DEVELOPER_CHAT_ID, t)
    \/ \E t \in {YES, NO} : \E f \in MessageFaults :
           confirm_remove_spec(DEVELOPER_CHAT_ID, t, f)
    \/ main_menu_handler(PATIENT, M_APPOINTMENT)
    \/ \E t \in TwoSpecs : appointment_choose_specialization(PATIENT, t)
    \/ appointment_choose_doctor(PATIENT, BUTTON_ONLINE)
    \/ appointment_description(PATIENT, DESCRIPTION, "none")
    \/ \E i \in ApptIds : confirm_appointment(i, "none")

SpecRemoveDoctor == InitTwoSpecs /\ [][NextRemoveDoctor]_vars

(***************************************************************************)
(* Choosing the contact method while the catalog changes: the developer    *)
(* chat adds and removes the specialization and its doctor, the other chat *)
(* walks the appointment flow forth and back.                              *)
(***************************************************************************)
NextChooseMethod ==
    \/ \E t \in {M_APPOINTMENT, M_DEVELOPER} : main_menu_handler(PATIENT, t)
    \/ appointment_choose_specialization(PATIENT, SPEC_S)
    \/ \E t \in {BUTTON_BOTH, BUTTON_ONLINE} : appointment_choose_doctor(PATIENT, t)
    \/ \E t \in {IN_PERSON, ONLINE, BACK} : appointment_contact_method(PATIENT, t)
    \/ \E t \in {DESCRIPTION, BACK} : appointment_description(PATIENT, t, "none")

NextMethods ==
    \/ \E u \in Chats : start(u)
    \/ NextCatalog
    \/ NextChooseMethod

SpecMethods == InitBooking /\ [][NextMethods]_vars

(***************************************************************************)
(* Properties of registration and profile editing (under SpecProfile).     *)
(***************************************************************************)
Letters == {"a", "b", "c", "d", "x", "A"}
DigitsOnly(s) == s # <<>> /\ \A i \in 1..Len(s) : s[i] \in Digits
LettersOnly(s) == s # <<>> /\ \A i \in 1..Len(s) : s[i] \in Letters
Trimmed(s) == s # <<>> /\ s[1] # SP /\ s[Len(s)] # SP

\* C6 (as claimed): register_email and edit_email accept, and a User row
\* stores, only an email whose whole string is local@domain.tld with exactly
\* one "@".
C6_OnlyWholeStringEmails ==
    /\ \A r \in users : EmailFullMatch(r.email)
    /\ \A u \in Chats : ud[u].reg_email # NULL => EmailFullMatch(ud[u].reg_email)

\* C7 (as claimed): the name and phone steps reject a non-empty malformed
\* input, so no name made only of digits and no phone made only of letters
\* is ever accepted or stored.
C7_MalformedRejected ==
    /\ \A r \in users : ~DigitsOnly(r.name) /\ ~LettersOnly(r.phone)
    /\ \A u \in Chats : ~DigitsOnly(ud[u].reg_name)

\* C7 (amended): register_name, edit_name, register_phone and edit_phone
\* refuse exactly the input that is empty once stripped: a refusal leaves
\* every table, the conversation state and user_data as they were, and what
\* is accepted and stored is non-empty and stripped, whatever its characters.
C7_RejectsOnlyEmpty ==
    [][ /\ \A r \in users' : Trimmed(r.name) /\ Trimmed(r.phone)
        /\ \A u \in Chats : ud'[u].reg_name # <<>>
        /\ (last'.handler \in {"register_name", "edit_name", "register_phone", "edit_phone"}
               /\ last'.reply = "invalid")
           => UNCHANGED <<dbVars, conv, ud>> ]_vars

\* a blank name was just refused while a digits-only name and a letters-only
\* phone sit in the users table
C7_Witness ==
    /\ last.handler = "edit_name"
    /\ last.reply = "invalid"
    /\ \E r \in users : r.name = NAME_7 /\ r.phone = PHONE_X
    /\ \E r \in users : r.telegram_id # DEVELOPER_CHAT_ID /\ DigitsOnly(r.name)

\* C8: no two User rows share a telegram_id and no two share an email.
C8_UniqueUsers ==
    \A a \in users : \A b \in users :
        a # b => a.telegram_id # b.telegram_id /\ a.email # b.email

\* two users are registered and one of them has just changed its email
C8_Witness ==
    /\ Cardinality(users) = 2
    /\ last.handler = "edit_email"
    /\ last.reply = "ok"

\* the commit of register_phone for chat u is about to break users.email's
\* unique constraint
EmailClash(u) ==
    /\ conv[u] = "REGISTER_PHONE"
    /\ \E r \in users : r.email = ud[u].reg_email /\ r.telegram_id # u

\* C9: a commit that raises an integrity violation is rolled back (every
\* table is as before the handler ran) and the sender gets the error answer:
\* the error answer goes with unchanged tables, a registration whose commit
\* breaks the unique email ends in the error answer unless it was cancelled,
\* and whatever a handler commits satisfies the constraints.
C9_RollbackOnIntegrityError ==
    [][ /\ last'.reply = "db_error" => UNCHANGED dbVars
        /\ \A u \in Chats :
               (EmailClash(u) /\ last'.handler = "register_phone"
                   /\ conv'[u] # "REGISTER_PHONE")
               => last'.reply \in {"db_error", "cancel"}
        /\ C8_UniqueUsers' ]_vars

\* register_phone has just answered with its integrity-error message
C9_Witness ==
    /\ last.handler = "register_phone"
    /\ last.reply = "db_error"
    /\ \E u \in Chats : ~HasUser(u) /\ conv[u] = "MAIN_MENU"
                          /\ \E r \in users : r.email = ud[u].reg_email

(***************************************************************************)
(* Properties of the appointments (under SpecBooking).  No handler returns *)
(* the state that leads to confirm_remove_doctor (the "remove doctor"      *)
(* button of developer_menu_handler returns DEV_REMOVE_SPECIALIZATION_     *)
(* SELECT), so the only writers of Appointment.status are                  *)
(* appointment_description, confirm_appointment and reject_appointment,    *)
(* and confirm_remove_spec deletes rows.                                   *)
(***************************************************************************)
\* C1: appointment status transitions are monotonic: in every step an
\* appointment that is there before and after either keeps its status or
\* goes from pending to confirmed, rejected or canceled; an appointment that
\* is confirmed, rejected or canceled never changes status.
C1_MonotonicStatus ==
    [][ \A a \in appointments : \A b \in appointments' :
            (a.id = b.id /\ a.status # b.status)
            => /\ a.status = "pending"
               /\ b.status \in {"confirmed", "rejected", "canceled"} ]_vars

\* both appointments are confirmed, their buttons are still under the
\* developer's messages, and a press of "reject" has just been refused
C1_Witness ==
    /\ Cardinality(appointments) = MaxAppts
    /\ \A a \in appointments :
           a.status = "confirmed" /\ [kind |-> "appt", id |-> a.id] \in dev_buttons
    /\ last.handler = "reject_appointment"
    /\ last.reply = "invalid"

\* C4: in every reachable state every Appointment row has a status among
\* pending, confirmed, rejected and canceled.
C4_AppointmentStatusDomain ==
    \A a \in appointments : a.status \in {"pending", "confirmed", "rejected", "canceled"}

\* a confirmed and a rejected appointment exist, the last one just decided
C4_Witness ==
    /\ \E a \in appointments : a.status = "confirmed"
    /\ \E a \in appointments : a.status = "rejected"
    /\ last.handler = "confirm_appointment"
    /\ last.reply = "ok"

(***************************************************************************)
(* Properties of the certificates (under SpecCertificates).                *)
(***************************************************************************)
\* C5: in every reachable state every HealthCertificate row has a status
\* among pending, approved and rejected.
C5_CertificateStatusDomain ==
    \A c \in certificates : c.status \in {"pending", "approved", "rejected"}

\* an approved and a rejected certificate exist, the last one just decided
C5_Witness ==
    /\ \E c \in certificates : c.status = "approved"
    /\ \E c \in certificates : c.status = "rejected"
    /\ last.handler = "approve_certificate"
    /\ last.reply = "ok"

(***************************************************************************)
(* Failing network operations (under SpecBooking).                         *)
(***************************************************************************)
\* the handlers of the CallbackQueryHandler, which is not part of the
\* conversation
CallbackHandlers ==
    {"confirm_appointment", "reject_appointment", "approve_certificate", "reject_certificate"}

\* C10 (as claimed): when an email send, a message send or a file download
\* fails inside a conversation handler, the error is caught, the sender gets
\* a failure message and the sender's conversation is in MAIN_MENU.
C10_FailureReported ==
    (last.fault # "none" /\ last.handler \notin CallbackHandlers)
    => (last.reply = "failure" /\ conv[last.chat] = "MAIN_MENU")

(***************************************************************************)
(* Properties of the commands (under SpecCommands).                        *)
(***************************************************************************)
\* C11: /start is taken in every state, /cancel and /restart in every state
\* of a running conversation; each of them leaves the sender's conversation
\* in MAIN_MENU and changes no row of any table.
C11_CommandsToMainMenu ==
    /\ [](\A u \in Chats :
              /\ ENABLED start(u)
              /\ conv[u] # "NONE" => ENABLED cancel_command(u) /\ ENABLED restart_command(u))
    /\ [][ last'.handler \in {"start", "cancel", "restart"}
           => conv'[last'.chat] = "MAIN_MENU" /\ UNCHANGED dbVars ]_vars

\* /cancel has just been answered in a chat that left the confirmation of a
\* specialization's removal without answering it, with rows in the tables
C11_Witness ==
    /\ last.handler = "cancel"
    /\ conv[last.chat] = "MAIN_MENU"
    /\ ud[last.chat].remove_specialization_id # 0
    /\ specializations # {}
    /\ users # {}

(***************************************************************************)
(* Properties of the removal of a specialization (under SpecTwoSpecs).     *)
(***************************************************************************)
\* C12: when confirm_remove_spec has answered "yes" with a commit that went
\* through, the chosen Specialization row, every Doctor of it and every
\* Appointment of those doctors are gone, and every other specialization,
\* doctor and appointment is exactly as it was.
C12_RemovalCascades ==
    [][ (last'.handler = "confirm_remove_spec" /\ last'.reply = "ok")
        => LET spec_id == ud[last'.chat].remove_specialization_id
               gone == {sp \in specializations : sp.id = spec_id}
               gone_doctors == {d \in doctors : d.specialization_id = spec_id}
               gone_appts == {a \in appointments :
                                 \E d \in gone_doctors : a.doctor_id = d.id}
           IN  /\ Cardinality(gone) = 1
               /\ specializations' = specializations \ gone
               /\ doctors' = doctors \ gone_doctors
               /\ appointments' = appointments \ gone_appts ]_vars

\* a specialization has just been removed with its doctor and appointment
\* while the other specialization keeps its doctor and its appointment
C12_Witness ==
    /\ last.handler = "confirm_remove_spec"
    /\ last.reply = "ok"
    /\ Cardinality(specializations) = 1
    /\ Cardinality(doctors) = 1
    /\ \E a \in appointments : a.id = 2 /\ \E d \in doctors : d.id = a.doctor_id
    /\ Cardinality(appointments) = 1

(***************************************************************************)
(* Properties of the booking steps (under SpecBooking).                    *)
(***************************************************************************)
\* C14: appointment_description adds an Appointment row only in a run whose
\* notification of the developer went through (its buttons are then in the
\* developer chat); in a run whose notification raises, the appointments
\* table is as before, the sender gets the failure answer and the
\* conversation is in MAIN_MENU.
C14_CommitOnlyIfNotified ==
    [][ last'.handler = "appointment_description"
        => /\ last'.fault = "message"
              => /\ appointments' = appointments
                 /\ last'.reply = "failure"
                 /\ conv'[last'.chat] = "MAIN_MENU"
           /\ \A a \in appointments' \ appointments :
                  /\ last'.fault # "message"
                  /\ [kind |-> "appt", id |-> a.id] \in dev_buttons' ]_vars

\* after one appointment was booked, the notification for the next one has
\* just failed
C14_Witness ==
    /\ last.handler = "appointment_description"
    /\ last.fault = "message"
    /\ Cardinality(appointments) = 1
    /\ conv[last.chat] = "MAIN_MENU"

\* the last handler run sent a decision notification to the appointment's
\* user: confirm_appointment or reject_appointment went through its pending
\* branch and the send_message in it did not fail
DecisionNotified ==
    /\ last.handler \in {"confirm_appointment", "reject_appointment"}
    /\ last.reply = "ok"
    /\ last.fault # "message"

\* C15: a run of confirm_appointment or reject_appointment changes at most
\* one Appointment, from pending to its decision, and nothing else in the
\* tables; a run on a missing or already decided appointment changes no row
\* and notifies nobody; a decision notification goes only with such a change,
\* and a decided appointment is never decided again, so every appointment
\* gets at most one decision and its user at most one notification.
C15_DecideOnce ==
    [][ /\ last'.handler \in {"confirm_appointment", "reject_appointment"}
           => /\ UNCHANGED <<users, specializations, doctors, certificates>>
              /\ {a.id : a \in appointments'} = {a.id : a \in appointments}
              /\ Cardinality(appointments' \ appointments) <= 1
              /\ \A b \in appointments' \ appointments :
                     \E a \in appointments :
                         /\ a.id = b.id
                         /\ a.status = "pending"
                         /\ b = [a EXCEPT !.status = IF last'.handler = "confirm_appointment"
                                                     THEN "confirmed" ELSE "rejected"]
              /\ last'.reply # "ok" => UNCHANGED dbVars /\ last'.fault = "none"
              /\ DecisionNotified' => appointments' # appointments
        /\ \A a \in appointments : \A b \in appointments' :
               (a.id = b.id /\ a.status # "pending") => b.status = a.status ]_vars

\* a press on "confirm" has just been refused while one appointment is
\* already rejected and a button is left of an appointment that is gone
C15_Witness ==
    /\ last.handler = "confirm_appointment"
    /\ last.reply = "invalid"
    /\ \E a \in appointments : a.status = "rejected"
    /\ \E b \in dev_buttons : b.kind = "appt" /\ ~\E a \in appointments : a.id = b.id

(***************************************************************************)
(* The request that sent a chat to registration (under SpecCommands).      *)
(***************************************************************************)
\* C16 (as claimed): when register_phone commits the User row of a chat that
\* was sent to registration from a request, the deferred request is created
\* in the same run: a pending Appointment of that user when pending_action is
\* make_appointment, a pending HealthCertificate of that user when it is
\* request_certificate.
C16_DeferredRequestCreated ==
    [][ (last'.handler = "register_phone" /\ users' # users)
        => LET u == last'.chat
               user == CHOOSE r \in users' : r.telegram_id = u
           IN  /\ ud[u].pending_action = "make_appointment"
                  => \E a \in appointments' \ appointments :
                         a.user_id = user.id /\ a.status = "pending"
               /\ ud[u].pending_action = "request_certificate"
                  => \E c \in certificates' \ certificates :
                         c.user_id = user.id /\ c.status = "pending" ]_vars

(***************************************************************************)
(* The removal of a doctor (under SpecRemoveDoctor, where every removal    *)
(* step is on a path that began with the "remove doctor" button).          *)
(***************************************************************************)
\* C17 (as claimed): once the developer has confirmed the removal of a
\* doctor, the Doctor row is deleted and every Appointment of that doctor is
\* still there with status canceled.
C17_DoctorRemovedAppointmentsCanceled ==
    [][ \A d \in doctors \ doctors' :
            \A a \in appointments :
                a.doctor_id = d.id
                => \E b \in appointments' : b.id = a.id /\ b.status = "canceled" ]_vars

\* C18 (as claimed): choosing "remove doctor" in the developer menu leads to
\* the steps that select a doctor (the state dev_remove_doctor_choose_
\* specialization handles), and on a path that starts with "remove doctor"
\* no Specialization row is deleted.
C18_RemoveDoctorKeepsSpecializations ==
    [][ /\ (developer_menu_handler(DEVELOPER_CHAT_ID, D_REMOVE_DOCTOR)
               /\ specializations # {})
           => conv'[DEVELOPER_CHAT_ID] = "DEV_REMOVE_DOCTOR_CHOOSE_SPECIALIZATION"
        /\ specializations \subseteq specializations' ]_vars

(***************************************************************************)
(* Payment receipts and the developer's actions (under SpecBooking).       *)
(***************************************************************************)
\* C19 (as claimed): a payment receipt is forwarded to the developer only for
\* an appointment that, at the moment of forwarding, exists, belongs to the
\* sender and has status pending or confirmed, whatever the developer did
\* between the sender's two payment steps.
C19_ReceiptForPayableAppointment ==
    [][ (/\ last'.handler = "payment_receipt_handler"
         /\ last'.reply = "ok"
         /\ ud[last'.chat].payment_appointment_id # 0
         /\ ud'[last'.chat].payment_appointment_id = 0)
        => \E a \in appointments :
               /\ a.id = ud[last'.chat].payment_appointment_id
               /\ HasUser(last'.chat)
               /\ a.user_id = UserOf(last'.chat).id
               /\ a.status \in {"pending", "confirmed"} ]_vars

(***************************************************************************)
(* The contact method of a stored appointment (under SpecMethods).         *)
(***************************************************************************)
\* what a doctor offers: in person only if in_person_available, online only
\* if online_available, both only if both
Offers(d, method) ==
    /\ method = IN_PERSON => d.in_person_available
    /\ method = ONLINE => d.online_available
    /\ method = BOTH => d.in_person_available /\ d.online_available

\* C20 (as claimed): the contact_method of every stored Appointment is one
\* that its doctor offers.
C20_ContactMethodOffered ==
    \A a \in appointments :
        \A d \in doctors :
            d.id = a.doctor_id => Offers(d, a.contact_method)

(***************************************************************************)
(* States that need a User row (under SpecCommands, which starts with no   *)
(* User row).                                                              *)
(***************************************************************************)
RegisteredOnlyStates ==
    {"EDIT_PROFILE_MENU", "EDIT_NAME", "EDIT_PHONE", "EDIT_EMAIL",
     "PAYMENT_APPOINTMENT_ID", "PAYMENT_RECEIPT"}

\* C21: a chat with no User row is never in a state of profile editing or of
\* payment, and a history, edit-profile or payment request of such a chat is
\* refused and leaves it in MAIN_MENU.
C21_UnregisteredKeptOut ==
    /\ [](\A u \in Chats : ~HasUser(u) => conv[u] \notin RegisteredOnlyStates)
    /\ [][ \A t \in {M_HISTORY, M_EDIT_PROFILE, M_PAYMENT} :
               (main_menu_handler(DEVELOPER_CHAT_ID, t) /\ ~HasUser(DEVELOPER_CHAT_ID))
               => conv'[DEVELOPER_CHAT_ID] = "MAIN_MENU" /\ last'.reply = "invalid" ]_vars

C21_Witness ==
    /\ ~HasUser(DEVELOPER_CHAT_ID)
    /\ specializations # {}
    /\ last.handler = "main_menu_handler"
    /\ last.reply = "invalid"
    /\ conv[DEVELOPER_CHAT_ID] = "MAIN_MENU"

(***************************************************************************)
(* The status of a new request (under SpecCommands).                       *)
(***************************************************************************)
\* C22: a row that appears in appointments or in certificates (no row of its
\* id was there before the step) has status pending.
C22_CreatedPending ==
    [][ /\ \A a \in appointments' :
               (\A b \in appointments : b.id # a.id) => a.status = "pending"
        /\ \A c \in certificates' :
               (\A b \in certificates : b.id # c.id) => c.status = "pending" ]_vars

C22_Witness ==
    /\ appointments # {}
    /\ certificates # {}
    /\ last.handler = "appointment_description"
    /\ last.reply = "ok"

(***************************************************************************)
(* Back from the description step (under SpecMethods).                     *)
(***************************************************************************)
\* C23 (as claimed): back at APPOINTMENT_DESCRIPTION leads to
\* APPOINTMENT_CONTACT_METHOD and creates no Appointment, whatever the
\* selected doctor offers.
C23_BackToContactMethod ==
    [][ appointment_description(PATIENT, BACK, "none")
        => /\ conv'[PATIENT] = "APPOINTMENT_CONTACT_METHOD"
           /\ UNCHANGED appointments ]_vars

\* C23 (amended): back at APPOINTMENT_DESCRIPTION creates no Appointment; it
\* leads to APPOINTMENT_CONTACT_METHOD when the Doctor row of the selected id
\* offers both methods, and leaves the conversation in
\* APPOINTMENT_DESCRIPTION when that row offers one method or is gone.
C23_BackByAvailability ==
    [][ appointment_description(PATIENT, BACK, "none")
        => LET both == \E d \in doctors :
                           /\ d.id = ud[PATIENT].appointment_doctor_id
                           /\ d.in_person_available
                           /\ d.online_available
           IN  /\ UNCHANGED appointments
               /\ conv'[PATIENT] = IF both THEN "APPOINTMENT_CONTACT_METHOD"
                                           ELSE "APPOINTMENT_DESCRIPTION" ]_vars

C23_Witness ==
    /\ last.handler = "appointment_description"
    /\ last.reply = "ok"
    /\ conv[PATIENT] = "APPOINTMENT_DESCRIPTION"
    /\ \E d \in doctors : d.id = ud[PATIENT].appointment_doctor_id /\ ~d.in_person_available

(***************************************************************************)
(* The developer's states (under SpecMethods, where the other chat asks    *)
(* for the developer menu too).                                            *)
(***************************************************************************)
DeveloperStates ==
    {"DEVELOPER_MENU", "DEV_MANAGE_SPECIALIZATIONS", "DEV_ADD_SPECIALIZATION",
     "DEV_REMOVE_SPECIALIZATION_SELECT", "DEV_ADD_DOCTOR_CHOOSE_SPECIALIZATION",
     "DEV_ADD_DOCTOR_NAME", "DEV_ADD_DOCTOR_AVAILABILITY",
     "DEV_REMOVE_DOCTOR_CHOOSE_SPECIALIZATION", "DEV_REMOVE_DOCTOR_SELECT",
     "CONFIRM_REMOVE_SPEC", "CONFIRM_REMOVE_DOCTOR", "SEND_MESSAGE_TO_USER"}

\* C24: a chat other than DEVELOPER_CHAT_ID is never in a developer state,
\* and no handler run for such a chat adds or removes a Specialization or a
\* Doctor row.
C24_DeveloperOnly ==
    /\ [](\A u \in Chats \ {DEVELOPER_CHAT_ID} : conv[u] \notin DeveloperStates)
    /\ [][ last'.chat # DEVELOPER_CHAT_ID
           => UNCHANGED <<specializations, doctors>> ]_vars

C24_Witness ==
    /\ last.chat = PATIENT
    /\ last.handler = "main_menu_handler"
    /\ last.reply = "invalid"
    /\ specializations # {}
    /\ conv[PATIENT] = "MAIN_MENU"

(***************************************************************************)
(* References between the tables (under SpecBooking).                      *)
(***************************************************************************)
\* C25: every Appointment refers to an existing User and an existing Doctor,
\* every Doctor to an existing Specialization, and every HealthCertificate
\* to an existing User.
C25_ReferentialIntegrity ==
    /\ \A a \in appointments :
           /\ \E r \in users : r.id = a.user_id
           /\ \E d \in doctors : d.id = a.doctor_id
    /\ \A d \in doctors : \E sp \in specializations : sp.id = d.specialization_id
    /\ \A c \in certificates : \E r \in users : r.id = c.user_id

\* a specialization was removed after an appointment had been booked with one
\* of its doctors
C25_Witness ==
    /\ last.handler = "confirm_remove_spec"
    /\ last.reply = "ok"
    /\ dev_buttons # {}
    /\ appointments = {}

(***************************************************************************)
(* A specialization removed under a booking (under SpecMethods).           *)
(***************************************************************************)
\* C26 (as claimed): when the specialization a chat is booking in has been
\* removed while the chat is choosing the doctor, the contact method or
\* writing the description, the chat's next input is handled: no handler
\* ends in an error nothing catches, and no Appointment is stored for a
\* doctor that is gone.
C26_RemovalHandled ==
    [][ (/\ last'.chat = PATIENT
         /\ conv[PATIENT] \in {"APPOINTMENT_CHOOSE_DOCTOR", "APPOINTMENT_CONTACT_METHOD",
                               "APPOINTMENT_DESCRIPTION"}
         /\ ~HasSpec(ud[PATIENT].appointment_specialization))
        => /\ last'.reply # "crash"
           /\ \A a \in appointments' :
                  (\A b \in appointments : b.id # a.id)
                  => \E d \in doctors : d.id = a.doctor_id ]_vars

(***************************************************************************)
(* Decided certificates (under SpecCertificates).                          *)
(***************************************************************************)
\* C27: a HealthCertificate row changes only while its status is pending, by
\* approve_certificate to approved or by reject_certificate to rejected; an
\* approved or rejected row stays as it is and is never deleted.
C27_DecidedCertificateFinal ==
    [][ \A c \in certificates :
            /\ c.status \in {"approved", "rejected"} => c \in certificates'
            /\ c \notin certificates'
               => /\ c.status = "pending"
                  /\ last'.handler \in {"approve_certificate", "reject_certificate"}
                  /\ [c EXCEPT !.status = IF last'.handler = "approve_certificate"
                                          THEN "approved" ELSE "rejected"]
                         \in certificates' ]_vars

\* the reject button of an approved certificate was pressed
C27_Witness ==
    /\ certificates # {}
    /\ \A c \in certificates : c.status = "approved"
    /\ last.handler = "reject_certificate"
    /\ last.reply = "invalid"

====
